---- MODULE Spec2Model ----
(***************************************************************************)
(* Model of the poetry knowledge graph of the MARTA-Poetry backend:        *)
(* backend/poetry/graph/extended_poetry_graph.py (ExtendedPoetryGraph, a   *)
(* wrapper around a networkx MultiDiGraph) and the admin endpoints that    *)
(* mutate the same graph (backend/admin_api.py).                           *)
(*                                                                         *)
(* Strings that the code inspects character by character (entity names,    *)
(* node ids) are sequences of one-character strings.  A Python dict is a   *)
(* sequence of its keys (insertion order) plus a function on those keys.   *)
(***************************************************************************)
EXTENDS Integers, Sequences, FiniteSets, TLC

VARIABLES
    graph,       \* self.graph: the MultiDiGraph
    graph_path,  \* self.graph_path
    disk,        \* the file system: path -> JSON document written by save_graph
    last,        \* the call made last, with its arguments and its result
    nops,        \* number of calls made so far
    deps,        \* graph_dependencies: the instances made, _graph_instance, the cache
    clock        \* datetime.now(), in whole seconds

vars == <<graph, graph_path, disk, last, nops, deps, clock>>

(***************************************************************************)
(* Bounds of the model.                                                    *)
(***************************************************************************)
MaxOps == 3
MaxOpsConn == 4
MaxOpsStore == 4
MaxOpsQuery == 4
MaxOpsMetrics == 3
MaxOpsRole == 3
MaxOpsNarr == 4
MaxOpsPure == 4
MaxOpsFile == 3
MaxOpsAdhere == 3
MaxOpsPrompt == 5
MaxOpsLink == 3
MaxOpsShared == 4
MaxOpsGenerate == 3

(***************************************************************************)
(* Python values.                                                          *)
(***************************************************************************)
None == "None"

\* dict.get(key), with None for a missing key
Get(d, k) == IF k \in DOMAIN d THEN d[k] ELSE None

\* dict.get(key, default)
GetOr(d, k, dflt) == IF k \in DOMAIN d THEN d[k] ELSE dflt

\* dict.update(other)
Update(d, other) ==
    [k \in (DOMAIN d) \cup (DOMAIN other) |-> IF k \in DOMAIN other THEN other[k] ELSE d[k]]

\* del d[key]
DelKey(d, k) == [j \in (DOMAIN d) \ {k} |-> d[j]]

EmptyDict == [k \in {} |-> None]

Range(s) == {s[i] : i \in DOMAIN s}

RECURSIVE Dedup(_)
\* the distinct elements of s, each at the place of its first occurrence
Dedup(s) ==
    IF s = <<>> THEN <<>>
    ELSE LET front == Dedup(SubSeq(s, 1, Len(s) - 1))
             x == s[Len(s)]
         IN  IF x \in Range(front) THEN front ELSE Append(front, x)

(***************************************************************************)
(* str.lower() and str.replace(' ', '_') on the characters of the model.   *)
(***************************************************************************)
LowerChar(c) ==
    CASE c = "L" -> "l"
      [] c = "A" -> "a"
      [] c = "B" -> "b"
      [] OTHER -> c

Lower(s) == [i \in DOMAIN s |-> LowerChar(s[i])]

ReplaceSpace(s) == [i \in DOMAIN s |-> IF s[i] = " " THEN "_" ELSE s[i]]

\* str.strip()
RECURSIVE LStrip(_)
LStrip(s) == IF s # <<>> /\ s[1] = " " THEN LStrip(Tail(s)) ELSE s
RECURSIVE RStrip(_)
RStrip(s) == IF s # <<>> /\ s[Len(s)] = " " THEN RStrip(SubSeq(s, 1, Len(s) - 1)) ELSE s
Strip(s) == RStrip(LStrip(s))

(***************************************************************************)
(* networkx.MultiDiGraph.  nodes: the node dict's keys in insertion order; *)
(* attr[n]: the attribute dict of node n; adj[u]: the keys of the          *)
(* successor dict of u in insertion order; ed[<<u, v>>]: the key dict of   *)
(* the parallel edges u -> v in insertion order, each entry an edge key    *)
(* and the edge's attribute dict.                                          *)
(***************************************************************************)
EmptyGraph == [nodes |-> <<>>, attr |-> EmptyDict, adj |-> EmptyDict, ed |-> EmptyDict]

HasNode(G, n) == n \in DOMAIN G.attr

\* G.add_node(n, **a)
AddNode(G, n, a) ==
    IF HasNode(G, n)
    THEN [G EXCEPT !.attr[n] = Update(@, a)]
    ELSE [nodes |-> Append(G.nodes, n),
          attr  |-> G.attr @@ (n :> a),
          adj   |-> G.adj @@ (n :> <<>>),
          ed    |-> G.ed]

HasEdge(G, u, v) == <<u, v>> \in DOMAIN G.ed

\* G.get_edge_data(u, v): the key dict of u -> v
KeyDict(G, u, v) == IF HasEdge(G, u, v) THEN G.ed[<<u, v>>] ELSE <<>>

\* MultiDiGraph.new_edge_key: len(keydict), raised until it is unused
NewEdgeKey(kd) ==
    LET used == {kd[i].key : i \in DOMAIN kd}
    IN  CHOOSE k \in Len(kd)..(2 * Len(kd)) :
            k \notin used /\ \A j \in Len(kd)..(k - 1) : j \in used

\* G.add_edge(u, v, key, **data) with the key given
AddEdgeKey(G, u, v, key, data) ==
    LET G1 == IF HasNode(G, u) THEN G ELSE AddNode(G, u, EmptyDict)
        G2 == IF HasNode(G1, v) THEN G1 ELSE AddNode(G1, v, EmptyDict)
    IN  IF HasEdge(G2, u, v)
        THEN LET kd == G2.ed[<<u, v>>]
             IN  IF \E i \in DOMAIN kd : kd[i].key = key
                 THEN [G2 EXCEPT !.ed[<<u, v>>] =
                          [i \in DOMAIN kd |->
                              IF kd[i].key = key
                              THEN [key |-> key, data |-> Update(kd[i].data, data)]
                              ELSE kd[i]]]
                 ELSE [G2 EXCEPT !.ed[<<u, v>>] = Append(kd, [key |-> key, data |-> data])]
        ELSE [G2 EXCEPT !.adj[u] = Append(@, v),
                        !.ed = @ @@ (<<u, v>> :> <<[key |-> key, data |-> data]>>)]

\* G.add_edge(u, v, **data): the key is chosen by new_edge_key
AddEdge(G, u, v, data) == AddEdgeKey(G, u, v, NewEdgeKey(KeyDict(G, u, v)), data)

\* a removal of node n that leaves the edges to it in place
RemoveNodeKeepInEdges(G, n) ==
    [nodes |-> SelectSeq(G.nodes, LAMBDA x : x # n),
     attr  |-> DelKey(G.attr, n),
     adj   |-> [m \in (DOMAIN G.adj) \ {n} |-> G.adj[m]],
     ed    |-> [e \in {d \in DOMAIN G.ed : d[1] # n} |-> G.ed[e]]]

\* G.remove_node(n): the node, its attributes and every edge from or to it
RemoveNode(G, n) ==
    [nodes |-> SelectSeq(G.nodes, LAMBDA x : x # n),
     attr  |-> DelKey(G.attr, n),
     adj   |-> [m \in (DOMAIN G.adj) \ {n} |-> SelectSeq(G.adj[m], LAMBDA x : x # n)],
     ed    |-> [e \in {d \in DOMAIN G.ed : d[1] # n /\ d[2] # n} |-> G.ed[e]]]

\* G.remove_edge(u, v, key)
RemoveEdgeKey(G, u, v, key) ==
    LET kd == SelectSeq(G.ed[<<u, v>>], LAMBDA e : e.key # key)
    IN  IF kd = <<>>
        THEN [G EXCEPT !.adj[u] = SelectSeq(@, LAMBDA x : x # v),
                       !.ed = DelKey(@, <<u, v>>)]
        ELSE [G EXCEPT !.ed[<<u, v>>] = kd]

\* G.neighbors(n) and G.successors(n): the successors of n, each once
Neighbors(G, n) == G.adj[n]

\* G.predecessors(n), as a set: every use in the model is insensitive to order
Predecessors(G, n) == {u \in DOMAIN G.attr : HasEdge(G, u, n)}

\* G.nodes[n].get("type")
TypeOf(G, n) == Get(G.attr[n], "type")

\* [n for n, d in G.nodes(data=True) if d.get("type") == t]
NodesOfType(G, t) == SelectSeq(G.nodes, LAMBDA n : TypeOf(G, n) = t)

RECURSIVE Flatten(_)
\* the concatenation of a sequence of sequences
Flatten(ss) == IF ss = <<>> THEN <<>> ELSE Head(ss) \o Flatten(Tail(ss))

\* G.edges(keys=True, data=True): by source in node order, then by successor,
\* then by key, each in dict order
Edges(G) ==
    Flatten([i \in DOMAIN G.nodes |->
        LET u == G.nodes[i]
        IN  Flatten([j \in DOMAIN G.adj[u] |->
                LET v == G.adj[u][j]
                    kd == G.ed[<<u, v>>]
                IN  [k \in DOMAIN kd |->
                        [source |-> u, target |-> v, key |-> kd[k].key, data |-> kd[k].data]]])])

(***************************************************************************)
(* ExtendedPoetryGraph: entities and poems.                                *)
(***************************************************************************)
EntityTypes == <<"theme", "imagery", "emotion", "sound_device">>

\* the id prefixes of add_poem, by entity type
Prefix(t) ==
    CASE t = "theme" -> "theme_"
      [] t = "imagery" -> "img_"
      [] t = "emotion" -> "emo_"
      [] t = "sound_device" -> "sound_"

\* the edge types of add_poem, by entity type
EdgeType(t) ==
    CASE t = "theme" -> "has_theme"
      [] t = "imagery" -> "contains_imagery"
      [] t = "emotion" -> "conveys_emotion"
      [] t = "sound_device" -> "uses_sound_device"

\* Slug without lower(): letter case is kept in the id
SlugKeepsCase(name) == ReplaceSpace(name)

\* f"{prefix}{name.lower().replace(' ', '_')}"
Slug(name) == ReplaceSpace(Lower(name))
EntityId(t, name) == <<Prefix(t)>> \o Slug(name)

\* _add_or_update_entity
AddOrUpdateEntity(G, entity_id, entity_type, name, now) ==
    IF HasNode(G, entity_id)
    THEN [G EXCEPT !.attr[entity_id]["usage_count"] = @ + 1]
    ELSE AddNode(G, entity_id,
             [type |-> entity_type, name |-> name, usage_count |-> 1, created_at |-> now])

RECURSIVE ConnectEntities(_, _, _, _, _)
\* one loop of add_poem: for each name, the entity and an edge from the poem
ConnectEntities(G, poem_id, t, names, now) ==
    IF names = <<>> THEN G
    ELSE LET id == EntityId(t, Head(names))
             G1 == AddOrUpdateEntity(G, id, t, Head(names), now)
             G2 == AddEdge(G1, poem_id, id, [type |-> EdgeType(t)])
         IN  ConnectEntities(G2, poem_id, t, Tail(names), now)

\* add_poem: in.themes, in.imagery, in.emotions, in.sound_devices are the lists
\* given (an omitted list is the empty one)
AddPoemGraph(G, poem_id, in, now) ==
    LET with_structure ==
            IF in.structure_metadata # EmptyDict
            THEN Update(in.metadata, [structure |-> in.structure_metadata])
            ELSE in.metadata
        full_metadata ==
            IF in.sound_metadata # EmptyDict
            THEN Update(with_structure, [sound_patterns |-> in.sound_metadata])
            ELSE with_structure
        G0 == AddNode(G, poem_id,
                  [type |-> "poem", title |-> in.title, text |-> in.text,
                   route_id |-> in.route_id, created_at |-> now,
                   narrative_role |-> in.narrative_role, metadata |-> full_metadata])
        G1 == ConnectEntities(G0, poem_id, "theme", in.themes, now)
        G2 == ConnectEntities(G1, poem_id, "imagery", in.imagery, now)
        G3 == ConnectEntities(G2, poem_id, "emotion", in.emotions, now)
    IN  ConnectEntities(G3, poem_id, "sound_device", in.sound_devices, now)

IsEntityType(t) == t \in {"theme", "imagery", "emotion", "sound_device"}

RECURSIVE CleanupOrphans(_, _)
\* the cleanup loop of remove_poem over connected_entities
CleanupOrphans(G, connected) ==
    IF connected = <<>> THEN G
    ELSE LET e == Head(connected)
             has_poem_connections ==
                 \E i \in DOMAIN Neighbors(G, e) : TypeOf(G, Neighbors(G, e)[i]) = "poem"
             G1 == IF HasNode(G, e) /\ ~has_poem_connections THEN RemoveNode(G, e) ELSE G
         IN  CleanupOrphans(G1, Tail(connected))

\* remove_poem: the graph left and the value returned
RemovePoemGraph(G, poem_id, cleanup_orphaned_entities) ==
    IF ~HasNode(G, poem_id) THEN [g |-> G, ret |-> FALSE]
    ELSE IF TypeOf(G, poem_id) # "poem" THEN [g |-> G, ret |-> FALSE]
    ELSE LET connected_entities ==
                 IF cleanup_orphaned_entities
                 THEN SelectSeq(Neighbors(G, poem_id), LAMBDA n : IsEntityType(TypeOf(G, n)))
                 ELSE <<>>
             G1 == RemoveNode(G, poem_id)
         IN  [g |-> CleanupOrphans(G1, connected_entities), ret |-> TRUE]

(***************************************************************************)
(* ExtendedPoetryGraph: reading a poem.                                    *)
(***************************************************************************)
\* _get_connected_entities: the names of the neighbours of one type
GetConnectedEntities(G, poem_id, entity_type) ==
    LET of_type == SelectSeq(Neighbors(G, poem_id), LAMBDA n : TypeOf(G, n) = entity_type)
    IN  [i \in DOMAIN of_type |-> G.attr[of_type[i]]["name"]]

\* _get_narrative_connections
GetNarrativeConnections(G, poem_id) ==
    LET succ == SelectSeq(Neighbors(G, poem_id), LAMBDA n : TypeOf(G, n) = "poem")
    IN  Flatten([i \in DOMAIN succ |->
            LET kd == SelectSeq(G.ed[<<poem_id, succ[i]>>],
                          LAMBDA e : Get(e.data, "type") = "narrative_connection")
            IN  [k \in DOMAIN kd |->
                    [target_poem_id |-> succ[i],
                     connection_type |-> Get(kd[k].data, "connection_type"),
                     strength |-> Get(kd[k].data, "strength"),
                     notes |-> Get(kd[k].data, "notes")]]])

\* get_poem: None, or the node's attributes and its connections
GetPoem(G, poem_id) ==
    IF ~HasNode(G, poem_id) THEN None
    ELSE Update(G.attr[poem_id],
             [themes |-> GetConnectedEntities(G, poem_id, "theme"),
              imagery |-> GetConnectedEntities(G, poem_id, "imagery"),
              emotions |-> GetConnectedEntities(G, poem_id, "emotion"),
              sound_devices |-> GetConnectedEntities(G, poem_id, "sound_device"),
              narrative_connections |-> GetNarrativeConnections(G, poem_id)])

(***************************************************************************)
(* ExtendedPoetryGraph: narrative management.                              *)
(***************************************************************************)
\* add_narrative_connection(poem_id_1, poem_id_2, ...): add_edge creates the
\* nodes that are missing, with no attributes
AddNarrativeConnectionGraph(G, poem_id_1, poem_id_2, c, now) ==
    AddEdge(G, poem_id_1, poem_id_2,
        [type |-> "narrative_connection",
         connection_type |-> c.connection_type,
         strength |-> c.strength,
         notes |-> c.notes,
         created_at |-> now])

\* create_narrative_connection without the test for the two nodes: add_edge
\* creates the nodes that are missing
CreateNarrativeConnectionUnguarded(G, source_poem_id, target_poem_id, c, now) ==
    [g |-> AddEdge(G, source_poem_id, target_poem_id,
               [type |-> "narrative_connection",
                connection_type |-> c.connection_type,
                strength |-> c.strength,
                notes |-> c.notes,
                created_at |-> now]),
     ret |-> TRUE]

\* create_narrative_connection: the graph left and the value returned
CreateNarrativeConnectionGraph(G, source_poem_id, target_poem_id, c, now) ==
    IF ~(HasNode(G, source_poem_id) /\ HasNode(G, target_poem_id))
    THEN [g |-> G, ret |-> FALSE]
    ELSE [g |-> AddEdge(G, source_poem_id, target_poem_id,
                    [type |-> "narrative_connection",
                     connection_type |-> c.connection_type,
                     strength |-> c.strength,
                     notes |-> c.notes,
                     created_at |-> now]),
          ret |-> TRUE]

\* clear_narrative_role that sets the role to None and keeps the attribute
ClearNarrativeRoleToNone(G, poem_id) ==
    IF ~HasNode(G, poem_id) THEN [g |-> G, ret |-> FALSE]
    ELSE IF TypeOf(G, poem_id) # "poem" THEN [g |-> G, ret |-> FALSE]
    ELSE [g |-> [G EXCEPT !.attr[poem_id] = Update(@, [narrative_role |-> None])],
          ret |-> TRUE]

\* clear_narrative_role: the graph left and the value returned
ClearNarrativeRoleGraph(G, poem_id) ==
    IF ~HasNode(G, poem_id) THEN [g |-> G, ret |-> FALSE]
    ELSE IF TypeOf(G, poem_id) # "poem" THEN [g |-> G, ret |-> FALSE]
    ELSE [g |-> IF "narrative_role" \in DOMAIN G.attr[poem_id]
                THEN [G EXCEPT !.attr[poem_id] = DelKey(@, "narrative_role")]
                ELSE G,
          ret |-> TRUE]

\* _set_narrative_role that keeps a role the poem already has
SetNarrativeRoleIfAbsent(G, poem_id, role) ==
    IF ~HasNode(G, poem_id) THEN [g |-> G, ret |-> FALSE]
    ELSE IF TypeOf(G, poem_id) # "poem" THEN [g |-> G, ret |-> FALSE]
    ELSE [g |-> IF "narrative_role" \in DOMAIN G.attr[poem_id] THEN G
                ELSE [G EXCEPT !.attr[poem_id] = Update(@, [narrative_role |-> role])],
          ret |-> TRUE]

\* _set_narrative_role: the graph left and the value returned
SetNarrativeRole(G, poem_id, role) ==
    IF ~HasNode(G, poem_id) THEN [g |-> G, ret |-> FALSE]
    ELSE IF TypeOf(G, poem_id) # "poem" THEN [g |-> G, ret |-> FALSE]
    ELSE [g |-> [G EXCEPT !.attr[poem_id] = Update(@, [narrative_role |-> role])],
          ret |-> TRUE]

\* the order of the isoformat strings; "" precedes every time
TimeRank(t) == CASE t = "" -> 0 [] t = "t0" -> 1 [] OTHER -> 2

RECURSIVE InsertByCreatedAt(_, _)
\* x put after every element created no earlier than x
InsertByCreatedAt(s, x) ==
    IF s = <<>> THEN <<x>>
    ELSE IF TimeRank(GetOr(Head(s), "created_at", "")) >= TimeRank(GetOr(x, "created_at", ""))
    THEN <<Head(s)>> \o InsertByCreatedAt(Tail(s), x)
    ELSE <<x>> \o s

RECURSIVE SortedByCreatedAt(_)
\* poems.sort(key=lambda x: x.get("created_at", ""), reverse=True)
SortedByCreatedAt(s) ==
    IF s = <<>> THEN <<>>
    ELSE InsertByCreatedAt(SortedByCreatedAt(SubSeq(s, 1, Len(s) - 1)), s[Len(s)])

\* the nodes that are poems with narrative_role == role, in node order
NodesWithRole(G, role) ==
    SelectSeq(G.nodes,
        LAMBDA n : TypeOf(G, n) = "poem" /\ Get(G.attr[n], "narrative_role") = role)

\* _get_poems_by_narrative_role
GetPoemsByNarrativeRole(G, role) ==
    LET found == NodesWithRole(G, role)
    IN  SortedByCreatedAt([i \in DOMAIN found |-> GetPoem(G, found[i])])

\* get_narrative_summary
GetNarrativeSummary(G) ==
    LET core_poems == GetPoemsByNarrativeRole(G, "core")
        extension_poems == GetPoemsByNarrativeRole(G, "extension")
        route_poems == GetPoemsByNarrativeRole(G, "route_generated")
        variation_poems == GetPoemsByNarrativeRole(G, "variation")
        narrative_connections ==
            Cardinality({i \in DOMAIN Edges(G) :
                            Get(Edges(G)[i].data, "type") = "narrative_connection"})
    IN  [core_poems |-> Len(core_poems),
         extension_poems |-> Len(extension_poems),
         route_generated_poems |-> Len(route_poems),
         variation_poems |-> Len(variation_poems),
         narrative_connections |-> narrative_connections,
         core_poem_titles |-> [i \in DOMAIN core_poems |->
                                  GetOr(core_poems[i], "title", "Untitled")],
         latest_core_poem |-> IF core_poems # <<>> THEN core_poems[1] ELSE None,
         total_narrative_poems |-> Len(core_poems) + Len(extension_poems)]

RECURSIVE RemoveEdgeKeys(_, _, _, _)
\* for key in edges_to_remove: self.graph.remove_edge(source, target, key)
RemoveEdgeKeys(G, u, v, keys) ==
    IF keys = <<>> THEN G
    ELSE RemoveEdgeKeys(RemoveEdgeKey(G, u, v, Head(keys)), u, v, Tail(keys))

\* remove_narrative_connection that removes the edges of every type
RemoveEveryConnectionGraph(G, source_poem_id, target_poem_id) ==
    IF ~(HasNode(G, source_poem_id) /\ HasNode(G, target_poem_id))
    THEN [g |-> G, ret |-> FALSE]
    ELSE IF HasEdge(G, source_poem_id, target_poem_id)
    THEN LET edge_data == KeyDict(G, source_poem_id, target_poem_id)
             edges_to_remove == [i \in DOMAIN edge_data |-> edge_data[i].key]
         IN  [g |-> RemoveEdgeKeys(G, source_poem_id, target_poem_id, edges_to_remove),
              ret |-> Len(edges_to_remove) > 0]
    ELSE [g |-> G, ret |-> FALSE]

\* remove_narrative_connection: the graph left and the value returned
RemoveNarrativeConnectionGraph(G, source_poem_id, target_poem_id) ==
    IF ~(HasNode(G, source_poem_id) /\ HasNode(G, target_poem_id))
    THEN [g |-> G, ret |-> FALSE]
    ELSE IF HasEdge(G, source_poem_id, target_poem_id)
    THEN LET edge_data == KeyDict(G, source_poem_id, target_poem_id)
             narrative == SelectSeq(edge_data,
                              LAMBDA e : Get(e.data, "type") = "narrative_connection")
             edges_to_remove == [i \in DOMAIN narrative |-> narrative[i].key]
         IN  [g |-> RemoveEdgeKeys(G, source_poem_id, target_poem_id, edges_to_remove),
              ret |-> Len(edges_to_remove) > 0]
    ELSE [g |-> G, ret |-> FALSE]

RECURSIVE RemoveConfirmed(_, _, _, _, _)
\* the removal loop of remove_poems_by_narrative_role over poems_to_remove: the
\* graph, the count and the calls made to confirm_callback (given or not, with
\* its answer for each poem id)
RemoveConfirmed(st, poems_to_remove, titles, role, confirm_callback) ==
    IF poems_to_remove = <<>> THEN st
    ELSE LET poem_id == Head(poems_to_remove)
             asked == confirm_callback.given
             should_remove == IF asked THEN confirm_callback.answer[poem_id] ELSE TRUE
             r == IF should_remove THEN RemovePoemGraph(st.g, poem_id, TRUE)
                  ELSE [g |-> st.g, ret |-> FALSE]
         IN  RemoveConfirmed(
                 [g |-> r.g,
                  ret |-> IF should_remove /\ r.ret THEN st.ret + 1 ELSE st.ret,
                  calls |-> IF asked
                            THEN Append(st.calls, <<poem_id, titles[poem_id], role>>)
                            ELSE st.calls],
                 Tail(poems_to_remove), titles, role, confirm_callback)

\* remove_poems_by_narrative_role that does not ask confirm_callback
RemovePoemsUnconfirmed(G, role, confirm_callback) ==
    LET poems_to_remove == NodesWithRole(G, role)
        titles == [n \in Range(poems_to_remove) |-> GetOr(G.attr[n], "title", "Untitled")]
    IN  RemoveConfirmed([g |-> G, ret |-> 0, calls |-> <<>>],
                        poems_to_remove, titles, role,
                        [given |-> FALSE, answer |-> confirm_callback.answer])

\* remove_poems_by_narrative_role: the graph left, the count returned and the
\* calls made to confirm_callback
RemovePoemsByNarrativeRole(G, role, confirm_callback) ==
    LET poems_to_remove == NodesWithRole(G, role)
        titles == [n \in Range(poems_to_remove) |-> GetOr(G.attr[n], "title", "Untitled")]
    IN  RemoveConfirmed([g |-> G, ret |-> 0, calls |-> <<>>],
                        poems_to_remove, titles, role, confirm_callback)

(***************************************************************************)
(* Persistence: networkx.node_link_data, json.dump, json.load and          *)
(* networkx.node_link_graph, as save_graph and load_graph compose them.    *)
(***************************************************************************)
\* the Python type of each attribute the program stores, by attribute name:
\* "int", "dict", "text" (a str kept as characters) or "str" (a str or None)
KindOf(k) ==
    CASE k \in {"usage_count", "key", "strength", "line_count", "loyalty_to_canon"} -> "int"
      [] k \in {"metadata", "structure", "sound_patterns"} -> "dict"
      [] k \in {"name", "id", "source", "target", "text"} -> "text"
      [] OTHER -> "str"

RECURSIVE JsonDump(_, _)
\* json.dump of the value v of attribute k
JsonDump(k, v) ==
    CASE KindOf(k) = "int" -> [j |-> "number", n |-> v]
      [] KindOf(k) = "dict" ->
            [j |-> "object", o |-> [m \in DOMAIN v |-> JsonDump(m, v[m])]]
      [] KindOf(k) = "text" -> [j |-> "string", s |-> v]
      [] OTHER -> IF v = None THEN [j |-> "null"] ELSE [j |-> "string", s |-> v]

\* json.dump of a dict of attributes
JsonDumpDict(d) == [k \in DOMAIN d |-> JsonDump(k, d[k])]

RECURSIVE JsonLoad(_)
\* json.load of one JSON value
JsonLoad(x) ==
    CASE x.j = "null" -> None
      [] x.j = "number" -> x.n
      [] x.j = "string" -> x.s
      [] x.j = "object" -> [m \in DOMAIN x.o |-> JsonLoad(x.o[m])]

JsonLoadDict(d) == [k \in DOMAIN d |-> JsonLoad(d[k])]

\* nx.node_link_data(G)
NodeLinkData(G) ==
    [directed |-> TRUE,
     multigraph |-> TRUE,
     nodes |-> [i \in DOMAIN G.nodes |-> Update(G.attr[G.nodes[i]], [id |-> G.nodes[i]])],
     links |-> [i \in DOMAIN Edges(G) |->
                   LET e == Edges(G)[i]
                   IN  Update(e.data, [source |-> e.source, target |-> e.target, key |-> e.key])]]

\* json.dump(data, f): the document written
JsonDocument(data) ==
    [directed |-> data.directed,
     multigraph |-> data.multigraph,
     nodes |-> [i \in DOMAIN data.nodes |-> JsonDumpDict(data.nodes[i])],
     links |-> [i \in DOMAIN data.links |-> JsonDumpDict(data.links[i])]]

\* json.load(f): the data read back
JsonData(doc) ==
    [directed |-> doc.directed,
     multigraph |-> doc.multigraph,
     nodes |-> [i \in DOMAIN doc.nodes |-> JsonLoadDict(doc.nodes[i])],
     links |-> [i \in DOMAIN doc.links |-> JsonLoadDict(doc.links[i])]]

\* the dict d without the keys of ks
Without(d, ks) == [k \in (DOMAIN d) \ ks |-> d[k]]

RECURSIVE LinkNodes(_, _)
\* node_link_graph: graph.add_node(d["id"], **rest) for each node of the data
LinkNodes(G, ns) ==
    IF ns = <<>> THEN G
    ELSE LinkNodes(AddNode(G, Head(ns)["id"], Without(Head(ns), {"id"})), Tail(ns))

RECURSIVE LinkEdges(_, _, _)
\* node_link_graph: graph.add_edge(source, target, key, **rest) for each link; a
\* graph that is no multigraph keeps one edge for each ordered pair
LinkEdges(G, ls, multigraph) ==
    IF ls = <<>> THEN G
    ELSE LET d == Head(ls)
             key == IF multigraph THEN d["key"] ELSE 0
         IN  LinkEdges(AddEdgeKey(G, d["source"], d["target"], key,
                           Without(d, {"source", "target", "key"})),
                       Tail(ls), multigraph)

\* node_link_graph that builds a graph with no edge keys: one edge for each
\* ordered pair
NodeLinkGraphNoKeys(data) ==
    LinkEdges(LinkNodes(EmptyGraph, data.nodes), data.links, FALSE)

\* nx.node_link_graph(data, directed=True, multigraph=True)
NodeLinkGraph(data) ==
    LinkEdges(LinkNodes(EmptyGraph, data.nodes), data.links, data.multigraph)

\* path.endswith(".pkl")
IsPickleName(path) == path \in {"graph.pkl"}

\* save_graph(path, format): the files left, and None or the exception raised
SaveGraphDisk(G, default_path, files, path, format) ==
    LET save_path == IF path # None THEN path ELSE default_path
    IN  IF save_path = None THEN [disk |-> files, ret |-> "ValueError"]
        ELSE IF format = "json"
        THEN [disk |-> Update(files, (save_path :>
                          [format |-> "json", content |-> JsonDocument(NodeLinkData(G))])),
              ret |-> None]
        ELSE IF format = "pickle"
        THEN [disk |-> Update(files, (save_path :> [format |-> "pickle", content |-> G])),
              ret |-> None]
        ELSE [disk |-> files, ret |-> "ValueError"]

\* load_graph that empties the graph before it reads the file
LoadGraphStateFromEmpty(G, default_path, files, path) ==
    LET format == IF IsPickleName(path) THEN "pickle" ELSE "json"
        emptied(exc) == [g |-> EmptyGraph, graph_path |-> default_path, ret |-> exc]
    IN  IF path \notin DOMAIN files THEN emptied("FileNotFoundError")
        ELSE IF format = "json"
        THEN IF files[path].format # "json" THEN emptied("JSONDecodeError")
             ELSE [g |-> NodeLinkGraph(JsonData(files[path].content)),
                   graph_path |-> path, ret |-> None]
        ELSE IF files[path].format # "pickle" THEN emptied("UnpicklingError")
             ELSE [g |-> files[path].content, graph_path |-> path, ret |-> None]

\* load_graph(path): the graph and the default path left, and None or the
\* exception raised
LoadGraphState(G, default_path, files, path) ==
    LET format == IF IsPickleName(path) THEN "pickle" ELSE "json"
        unchanged(exc) == [g |-> G, graph_path |-> default_path, ret |-> exc]
    IN  IF path \notin DOMAIN files THEN unchanged("FileNotFoundError")
        ELSE IF format = "json"
        THEN IF files[path].format # "json" THEN unchanged("JSONDecodeError")
             ELSE [g |-> NodeLinkGraph(JsonData(files[path].content)),
                   graph_path |-> path, ret |-> None]
        ELSE IF files[path].format # "pickle" THEN unchanged("UnpicklingError")
             ELSE [g |-> files[path].content, graph_path |-> path, ret |-> None]

\* ExtendedPoetryGraph(graph_path): the graph and the default path of the new
\* store, and None or the exception raised
Construct(files, path) ==
    IF path # None /\ path \in DOMAIN files
    THEN LoadGraphState(EmptyGraph, path, files, path)
    ELSE [g |-> EmptyGraph, graph_path |-> path, ret |-> None]

(***************************************************************************)
(* graph_dependencies: the module's _graph_instance and the lru_cache of   *)
(* get_poetry_graph.  An instance is its place in the list of the          *)
(* instances made so far, 0 stands for None and for an empty cache.        *)
(***************************************************************************)
\* a call that raises returns Raised
Raised(e) == [raised |-> e]
IsRaised(v) == "raised" \in DOMAIN v

\* the module as imported
NoInstance == [instances |-> <<>>, graph_instance |-> 0, cached |-> 0]

\* get_graph_path(), POETRY_GRAPH_PATH not set
get_graph_path == "graph.json"

\* the function body of get_poetry_graph: the module left, and the instance
\* returned or the exception raised
GetPoetryGraphBody(D, files) ==
    IF D.graph_instance # 0 THEN [deps |-> D, ret |-> [instance |-> D.graph_instance]]
    ELSE LET made == Construct(files, get_graph_path)
         IN  IF made.ret # None THEN [deps |-> D, ret |-> Raised(made.ret)]
             ELSE [deps |-> [D EXCEPT !.instances = Append(@, made),
                                      !.graph_instance = Len(D.instances) + 1],
                   ret |-> [instance |-> Len(D.instances) + 1]]

\* @lru_cache() get_poetry_graph(): the value of the first call that returned
\* is returned by every later call
GetPoetryGraph(D, files) ==
    IF D.cached # 0 THEN [deps |-> D, ret |-> [instance |-> D.cached]]
    ELSE LET r == GetPoetryGraphBody(D, files)
         IN  IF IsRaised(r.ret) THEN r
             ELSE [deps |-> [r.deps EXCEPT !.cached = r.ret.instance], ret |-> r.ret]

\* initialize_graph(graph_path)
InitializeGraph(D, files, path) ==
    LET made == Construct(files, IF path # None THEN path ELSE get_graph_path)
    IN  IF made.ret # None THEN [deps |-> D, ret |-> Raised(made.ret)]
        ELSE [deps |-> [D EXCEPT !.instances = Append(@, made),
                                 !.graph_instance = Len(D.instances) + 1],
              ret |-> [instance |-> Len(D.instances) + 1]]

(***************************************************************************)
(* Query operations.  An Optional[int] argument is the empty set (None) or *)
(* the set of its one value.                                               *)
(***************************************************************************)
RECURSIVE InsertByUsage(_, _)
\* x placed in the list s, which is in descending order of usage_count, after
\* every element whose usage_count is at least that of x
InsertByUsage(s, x) ==
    IF s = <<>> THEN <<x>>
    ELSE IF Head(s).usage_count >= x.usage_count
    THEN <<Head(s)>> \o InsertByUsage(Tail(s), x)
    ELSE <<x>> \o s

\* the list left in insertion order
Unsorted(s) == s

RECURSIVE SortedByUsage(_)
\* sorted(s, key=lambda x: x["usage_count"], reverse=True): descending and stable
SortedByUsage(s) ==
    IF s = <<>> THEN <<>>
    ELSE InsertByUsage(SortedByUsage(SubSeq(s, 1, Len(s) - 1)), s[Len(s)])

\* _get_routes_using_entity, as a set: list(set) has no order the program fixes
GetRoutesUsingEntity(G, entity_id) ==
    {Get(G.attr[p], "route_id") :
        p \in {q \in Predecessors(G, entity_id) :
                  TypeOf(G, q) = "poem" /\ Get(G.attr[q], "route_id") # None}}

\* _get_entities_by_frequency
GetEntitiesByFrequency(G, entity_type, min_freq, max_freq) ==
    LET kept == SelectSeq(NodesOfType(G, entity_type),
                    LAMBDA n :
                        LET usage_count == GetOr(G.attr[n], "usage_count", 0)
                        IN  /\ ~(\E m \in min_freq : usage_count < m)
                            /\ ~(\E m \in max_freq : usage_count > m))
        entities == [i \in DOMAIN kept |->
                        [id |-> kept[i],
                         name |-> G.attr[kept[i]]["name"],
                         usage_count |-> GetOr(G.attr[kept[i]], "usage_count", 0),
                         used_by_routes |-> GetRoutesUsingEntity(G, kept[i]),
                         created_at |-> Get(G.attr[kept[i]], "created_at")]]
    IN  SortedByUsage(entities)

CanonicalMinFrequency == 3
RareMaxFrequency == 2

\* get_rare_themes with no upper limit on the count
GetAllThemes(G, max_frequency) ==
    GetEntitiesByFrequency(G, "theme", {0}, {})

\* get_canonical_themes answered from the graph as it was at construction
GetCanonicalThemesAtConstruction(G, min_frequency) ==
    GetEntitiesByFrequency(EmptyGraph, "theme", {min_frequency}, {})

\* get_canonical_themes(min_frequency)
GetCanonicalThemes(G, min_frequency) ==
    GetEntitiesByFrequency(G, "theme", {min_frequency}, {})

\* get_rare_themes(max_frequency)
GetRareThemes(G, max_frequency) ==
    GetEntitiesByFrequency(G, "theme", {0}, {max_frequency})

\* existing_combos left empty: no pair counts as observed
NoCombos(G, entity_type_1, entity_type_2) == {}

\* get_unexplored_combinations: the set existing_combos
ExistingCombos(G, entity_type_1, entity_type_2) ==
    UNION {
        LET entities_1 == SelectSeq(Neighbors(G, p), LAMBDA n : TypeOf(G, n) = entity_type_1)
            entities_2 == SelectSeq(Neighbors(G, p), LAMBDA n : TypeOf(G, n) = entity_type_2)
        IN  Range(entities_1) \X Range(entities_2)
        : p \in {q \in DOMAIN G.attr : TypeOf(G, q) = "poem"}}

\* get_unexplored_combinations: the dict appended for the pair (e1, e2); a key
\* written twice keeps the value written last
UnexploredEntry(G, entity_type_1, entity_type_2, e1, e2) ==
    LET d1 == (entity_type_1 :> G.attr[e1]["name"])
        d2 == Update(d1, (entity_type_1 \o "_id") :> e1)
        d3 == Update(d2, entity_type_2 :> G.attr[e2]["name"])
        d4 == Update(d3, (entity_type_2 \o "_id") :> e2)
        d5 == Update(d4, (entity_type_1 \o "_usage") :> G.attr[e1]["usage_count"])
    IN  Update(d5, (entity_type_2 \o "_usage") :> G.attr[e2]["usage_count"])

RECURSIVE UnexploredLoop(_, _, _, _, _, _, _, _)
\* get_unexplored_combinations: the two nested loops, at the i-th entity of the
\* first type and the j-th of the second, with the list built so far
UnexploredLoop(G, types, all_1, all_2, existing, limit, ij, unexplored) ==
    LET i == ij[1]
        j == ij[2]
    IN  IF i > Len(all_1) THEN unexplored
        ELSE IF j > Len(all_2)
        THEN UnexploredLoop(G, types, all_1, all_2, existing, limit, <<i + 1, 1>>, unexplored)
        ELSE IF <<all_1[i], all_2[j]>> \in existing
        THEN UnexploredLoop(G, types, all_1, all_2, existing, limit, <<i, j + 1>>, unexplored)
        ELSE LET found == Append(unexplored,
                              UnexploredEntry(G, types[1], types[2], all_1[i], all_2[j]))
             IN  IF Len(found) >= limit THEN found
                 ELSE UnexploredLoop(G, types, all_1, all_2, existing, limit,
                                     <<i, j + 1>>, found)

\* get_unexplored_combinations(entity_type_1, entity_type_2, limit)
GetUnexploredCombinations(G, entity_type_1, entity_type_2, limit) ==
    UnexploredLoop(G, <<entity_type_1, entity_type_2>>,
                   NodesOfType(G, entity_type_1), NodesOfType(G, entity_type_2),
                   ExistingCombos(G, entity_type_1, entity_type_2), limit, <<1, 1>>, <<>>)

\* get_inverse_pattern: the set current_patterns
CurrentPatterns(G, entity_id, pattern_type) ==
    UNION {{n \in Range(Neighbors(G, p)) : TypeOf(G, n) = pattern_type} :
              p \in {q \in Predecessors(G, entity_id) : TypeOf(G, q) = "poem"}}

\* get_inverse_pattern with current_patterns left empty: every entity of the type
AllPatterns(G, entity_id, pattern_type) ==
    IF ~HasNode(G, entity_id) THEN <<>>
    ELSE LET every == NodesOfType(G, pattern_type)
         IN  SortedByUsage([i \in DOMAIN every |->
                               [id |-> every[i],
                                name |-> G.attr[every[i]]["name"],
                                usage_count |-> G.attr[every[i]]["usage_count"]]])

\* get_inverse_pattern(entity_id, pattern_type)
GetInversePattern(G, entity_id, pattern_type) ==
    IF ~HasNode(G, entity_id) THEN <<>>
    ELSE LET current_patterns == CurrentPatterns(G, entity_id, pattern_type)
             inverse == SelectSeq(NodesOfType(G, pattern_type),
                            LAMBDA n : n \notin current_patterns)
         IN  SortedByUsage([i \in DOMAIN inverse |->
                               [id |-> inverse[i],
                                name |-> G.attr[inverse[i]]["name"],
                                usage_count |-> G.attr[inverse[i]]["usage_count"]]])

(***************************************************************************)
(* ExtendedPoetryGraph: free-verse metrics.  A quotient a / b is the pair  *)
(* [num |-> a, den |-> b]; the score, a square root of a quotient with a   *)
(* sign, is [sign |-> s, num |-> a, den |-> b] for s * sqrt(a / b).        *)
(***************************************************************************)
RECURSIVE Sum(_)
\* sum(s)
Sum(s) == IF s = <<>> THEN 0 ELSE Head(s) + Sum(Tail(s))

\* the poems of a route, in node order
PoemsOfRoute(G, route_id) ==
    SelectSeq(G.nodes,
        LAMBDA n : TypeOf(G, n) = "poem" /\ Get(G.attr[n], "route_id") = route_id)

\* poem_data.get("metadata", {}).get("structure", {})
StructureOf(G, poem_id) ==
    GetOr(GetOr(G.attr[poem_id], "metadata", EmptyDict), "structure", EmptyDict)

\* get_free_verse_metrics_by_route
GetFreeVerseMetricsByRoute(G, route_id) ==
    LET poems == PoemsOfRoute(G, route_id)
        with(k) == SelectSeq(poems, LAMBDA n : k \in DOMAIN StructureOf(G, n))
        line_counts == [i \in DOMAIN with("line_count") |->
                           StructureOf(G, with("line_count")[i])["line_count"]]
        avg_line_length ==
            [i \in DOMAIN with("line_lengths") |->
                LET ls == StructureOf(G, with("line_lengths")[i])["line_lengths"]
                IN  [num |-> Sum(ls), den |-> Len(ls)]]
        stanza_patterns == [i \in DOMAIN with("stanza_breaks") |->
                               StructureOf(G, with("stanza_breaks")[i])["stanza_breaks"]]
        metrics == [route_id |-> route_id,
                    poem_count |-> Len(poems),
                    line_counts |-> line_counts,
                    avg_line_length |-> avg_line_length,
                    stanza_patterns |-> stanza_patterns,
                    enjambment_usage |-> <<>>]
    IN  IF poems = <<>> THEN [route_id |-> route_id, poem_count |-> 0]
        ELSE IF line_counts # <<>>
        THEN Update(metrics, [avg_line_count |->
                                 [num |-> Sum(line_counts), den |-> Len(line_counts)]])
        ELSE metrics

\* the floats 0.0 and 1.0
Zero == [sign |-> 0, num |-> 0, den |-> 1]
One == [sign |-> 1, num |-> 1, den |-> 1]

\* min(x, 1.0)
MinOne(x) == IF x.sign = 1 /\ x.num >= x.den THEN One ELSE x

\* get_structural_diversity_score.  With n line counts of sum S and sum of
\* squares Q, mean_lines is S / n, variance is (n * Q - S * S) / (n * n) and
\* coefficient_of_variation * 2 is sqrt(4 * (n * Q - S * S)) / S
GetStructuralDiversityScore(G, route_id) ==
    LET metrics == GetFreeVerseMetricsByRoute(G, route_id)
        line_counts == GetOr(metrics, "line_counts", <<>>)
        n == Len(line_counts)
        S == Sum(line_counts)
        Q == Sum([i \in DOMAIN line_counts |-> line_counts[i] * line_counts[i]])
        V == n * Q - S * S
    IN  IF metrics["poem_count"] < 2 THEN Zero
        ELSE IF n < 2 THEN Zero
        ELSE IF S = 0 THEN Zero
        ELSE IF V = 0 THEN Zero
        ELSE MinOne([sign |-> IF S > 0 THEN 1 ELSE -1, num |-> 4 * V, den |-> S * S])

(***************************************************************************)
(* ExtendedPoetryGraph: the statistics of the routes and the sound-device  *)
(* queries the prompt builder reads.                                       *)
(***************************************************************************)

\* get_canonical_sound_devices(min_frequency)
GetCanonicalSoundDevices(G, min_frequency) ==
    GetEntitiesByFrequency(G, "sound_device", {min_frequency}, {})

\* get_rare_sound_devices(max_frequency)
GetRareSoundDevices(G, max_frequency) ==
    GetEntitiesByFrequency(G, "sound_device", {0}, {max_frequency})

\* get_sound_device_co_occurrence_with_theme(theme): for each device name, the
\* number of poems with the theme that use it
GetSoundDeviceCoOccurrenceWithTheme(G, theme) ==
    LET theme_id == EntityId("theme", theme)
        poems == IF HasNode(G, theme_id)
                 THEN {q \in Predecessors(G, theme_id) : TypeOf(G, q) = "poem"}
                 ELSE {}
        devices(q) == {n \in Range(Neighbors(G, q)) : TypeOf(G, n) = "sound_device"}
        names == {G.attr[n]["name"] : n \in UNION {devices(q) : q \in poems}}
    IN  [name \in names |->
            Cardinality({q \in poems : \E n \in devices(q) : G.attr[n]["name"] = name})]

\* get_route_statistics(route_id) reads the name of every neighbour of a poem of
\* the route: a neighbour without a name raises KeyError
RouteStatisticsRaise(G, route_id) ==
    \E n \in Range(PoemsOfRoute(G, route_id)) :
        \E e \in Range(Neighbors(G, n)) : "name" \notin DOMAIN G.attr[e]

\* get_route_statistics(route_id): poem_count and structure_metrics
GetRouteStatistics(G, route_id) ==
    LET poems == PoemsOfRoute(G, route_id)
    IN  IF poems = <<>> THEN [route_id |-> route_id, poem_count |-> 0]
        ELSE IF RouteStatisticsRaise(G, route_id) THEN Raised("KeyError")
        ELSE [route_id |-> route_id,
              poem_count |-> Len(poems),
              structure_metrics |-> GetFreeVerseMetricsByRoute(G, route_id)]

\* sorted(route_ids), for the route ids of the model
RouteOrder == <<"R1", "R2">>

\* get_all_routes_statistics(): the routes it reports on
RoutesWithPoems(G) ==
    LET route_ids == {Get(G.attr[n], "route_id") :
                         n \in {q \in DOMAIN G.attr : TypeOf(G, q) = "poem"}} \ {None, ""}
    IN  SelectSeq(RouteOrder, LAMBDA r : r \in route_ids)

\* get_all_routes_statistics() raises when get_route_statistics does
AllRoutesStatisticsRaise(G) ==
    \E i \in DOMAIN RoutesWithPoems(G) : RouteStatisticsRaise(G, RoutesWithPoems(G)[i])

\* get_all_routes_statistics(), when it returns
GetAllRoutesStatistics(G) ==
    [i \in DOMAIN RoutesWithPoems(G) |-> GetRouteStatistics(G, RoutesWithPoems(G)[i])]

(***************************************************************************)
(* PromptBuilder: the constraints build_prompt_for_route derives from the  *)
(* graph and the personality.  loyalty_to_canon, an affinity and a         *)
(* preference are in tenths; theme_affinities and sound_preferences, dicts *)
(* in insertion order, are sequences of <<name, value>>.  The prompt is    *)
(* assembled by _assemble_prompt from the route id, the personality, the   *)
(* context, the strategy and these constraints; it does not read the       *)
(* graph.  An f-string is the sequence of its parts.                       *)
(***************************************************************************)
\* s[:n]
Take(s, n) == SubSeq(s, 1, IF n < Len(s) THEN n ELSE Len(s))

\* [x["name"] for x in s]
Names(s) == [i \in DOMAIN s |-> s[i]["name"]]

\* d.get(name, dflt), d a dict in insertion order
ItemGet(d, name, dflt) ==
    IF \E i \in DOMAIN d : d[i][1] = name
    THEN d[CHOOSE i \in DOMAIN d : d[i][1] = name][2]
    ELSE dflt

\* name in d
HasItem(d, name) == \E i \in DOMAIN d : d[i][1] = name

\* one step of a descending stable sort on the k-th component: x goes after the
\* elements that are not below it
InsertDescending(sorted, x, k) ==
    LET n == Cardinality({i \in DOMAIN sorted : sorted[i][k] >= x[k]})
    IN  SubSeq(sorted, 1, n) \o <<x>> \o SubSeq(sorted, n + 1, Len(sorted))

RECURSIVE SortedDescending(_, _)
\* sorted(s, key=lambda x: x[k], reverse=True), and s.sort(key=..., reverse=True)
SortedDescending(s, k) ==
    IF s = <<>> THEN <<>>
    ELSE InsertDescending(SortedDescending(SubSeq(s, 1, Len(s) - 1), k), s[Len(s)], k)

\* _select_with_affinity without the sort: the first count items
SelectFirst(items, affinities, count) == Take(items, count)

\* _select_with_affinity(items, affinities, count); a score is in tenths
SelectWithAffinity(items, affinities, count) ==
    LET scored_items ==
            [i \in DOMAIN items |->
                <<ItemGet(affinities, items[i]["name"], 0) + GetOr(items[i], "usage_count", 0),
                  items[i]>>]
        sorted == SortedDescending(scored_items, 1)
    IN  [i \in DOMAIN Take(sorted, count) |-> sorted[i][2]]

\* _build_loyal_constraints
BuildLoyalConstraints(G, personality) ==
    LET canonical_themes == GetCanonicalThemes(G, 3)
        canonical_sounds == GetCanonicalSoundDevices(G, 2)
        theme_affinities == GetOr(personality, "theme_affinities", <<>>)
        sound_preferences == GetOr(personality, "sound_preferences", <<>>)
        selected_themes == SelectWithAffinity(canonical_themes, theme_affinities, 3)
        selected_sounds == SelectWithAffinity(canonical_sounds, sound_preferences, 2)
        theme_sound_pairs ==
            IF selected_themes # <<>>
            THEN GetSoundDeviceCoOccurrenceWithTheme(G, selected_themes[1]["name"])
            ELSE EmptyDict
        route_stats == GetAllRoutesStatistics(G)
        similar_routes == SelectSeq(route_stats, LAMBDA r : GetOr(r, "poem_count", 0) > 2)
        avg_structure ==
            IF similar_routes # <<>>
            THEN [avg_line_count |->
                     [sum |-> [i \in DOMAIN similar_routes |->
                                  GetOr(GetOr(similar_routes[i], "structure_metrics", EmptyDict),
                                        "avg_line_count", 12)],
                      den |-> Len(similar_routes)],
                  common_stanza_pattern |-> <<4, 4, 4>>]
            ELSE [avg_line_count |-> 12, common_stanza_pattern |-> <<4, 4, 4>>]
    IN  IF AllRoutesStatisticsRaise(G) THEN Raised("KeyError")
        ELSE [themes |-> Names(selected_themes),
              sound_devices |-> Names(selected_sounds),
              theme_sound_pairs |-> theme_sound_pairs,
              structure |-> avg_structure,
              approach |-> "canonical",
              rationale |-> <<"Following established patterns with ",
                              Names(Take(selected_themes, 2)), " themes">>]

\* [name for name, value in sorted(d.items(), key=lambda x: x[1], reverse=True)[:2]]
TopTwo(d) ==
    LET sorted == SortedDescending(d, 2)
    IN  [i \in DOMAIN Take(sorted, 2) |-> sorted[i][1]]

\* _build_balanced_constraints
BuildBalancedConstraints(G, personality) ==
    LET canonical_themes == GetCanonicalThemes(G, 2)
        unexplored == GetUnexploredCombinations(G, "theme", "sound_device", 5)
        themes == (IF canonical_themes # <<>> THEN <<canonical_themes[1]["name"]>> ELSE <<>>)
                  \o (IF unexplored # <<>> THEN <<unexplored[1]["theme"]>> ELSE <<>>)
        sound_preferences == GetOr(personality, "sound_preferences", <<>>)
    IN  [themes |-> themes,
         sound_devices |-> TopTwo(sound_preferences),
         approach |-> "balanced",
         rationale |-> <<"Balancing established patterns with fresh exploration">>]

\* _build_ignore_constraints
BuildIgnoreConstraints(G, personality) ==
    LET rare_themes == GetRareThemes(G, 2)
        rare_sounds == GetRareSoundDevices(G, 1)
        sound_preferences == GetOr(personality, "sound_preferences", <<>>)
        theme_affinities == GetOr(personality, "theme_affinities", <<>>)
        selected_themes == (IF rare_themes # <<>> THEN <<rare_themes[1]["name"]>> ELSE <<>>)
                           \o TopTwo(theme_affinities)
        preferred_sounds == TopTwo(sound_preferences)
        selected_sounds == IF preferred_sounds = <<>> /\ rare_sounds # <<>>
                           THEN Names(Take(rare_sounds, 2))
                           ELSE preferred_sounds
    IN  [themes |-> Take(selected_themes, 3),
         sound_devices |-> selected_sounds,
         avoid |-> "canonical patterns",
         structure |-> [vary_from_norm |-> TRUE, experimental |-> TRUE],
         approach |-> "ignore_canon",
         rationale |-> <<"Exploring underutilized territory with rare themes and sounds">>]

\* _build_invert_constraints
BuildInvertConstraints(G, personality) ==
    LET canonical_themes == GetCanonicalThemes(G, 3)
    IN  IF canonical_themes = <<>> THEN BuildBalancedConstraints(G, personality)
        ELSE LET primary_theme == canonical_themes[1]
                 theme_id == primary_theme["id"]
                 inverse_sounds == GetInversePattern(G, theme_id, "sound_device")
                 inverse_emotions == GetInversePattern(G, theme_id, "emotion")
                 sound_preferences == GetOr(personality, "sound_preferences", <<>>)
                 preferred == SelectSeq(Tail(inverse_sounds),
                                  LAMBDA o : HasItem(sound_preferences, o["name"]))
                 selected_sounds ==
                     IF inverse_sounds = <<>> THEN <<>>
                     ELSE <<inverse_sounds[1]>> \o Take(preferred, 1)
             IN  [themes |-> <<primary_theme["name"]>>,
                  sound_devices |-> Names(Take(selected_sounds, 2)),
                  inverse_emotions |-> Names(Take(inverse_emotions, 2)),
                  structure |-> [contrast_with_norm |-> TRUE],
                  approach |-> "invert_canon",
                  rationale |-> <<"Using canonical theme '", primary_theme["name"],
                                  "' with unexpected sound devices to create contrast">>]

\* best_combo left at the first combination
FirstCombo(unexplored_combos, sound_preferences, theme_affinities) == unexplored_combos[1]

\* _build_create_new_constraints: the loop that picks best_combo, a score in
\* tenths
BestCombo(unexplored_combos, sound_preferences, theme_affinities) ==
    LET combo_score(combo) ==
            ItemGet(sound_preferences, combo["sound_device"], 5)
            + ItemGet(theme_affinities, combo["theme"], 5)
        above == {i \in DOMAIN unexplored_combos : combo_score(unexplored_combos[i]) > 10}
    IN  IF above = {} THEN unexplored_combos[1]
        ELSE unexplored_combos[CHOOSE i \in above : \A j \in above : i <= j]

\* _build_create_new_constraints
BuildCreateNewConstraints(G, personality) ==
    LET unexplored_combos == GetUnexploredCombinations(G, "theme", "sound_device", 10)
        unexplored_imagery == GetUnexploredCombinations(G, "theme", "imagery", 10)
        sound_preferences == GetOr(personality, "sound_preferences", <<>>)
        theme_affinities == GetOr(personality, "theme_affinities", <<>>)
        best_combo == BestCombo(unexplored_combos, sound_preferences, theme_affinities)
        selected_themes == IF unexplored_combos # <<>>
                           THEN <<best_combo["theme"]>>
                           ELSE <<"(introduce new theme)">>
        selected_sounds == IF unexplored_combos # <<>>
                           THEN <<best_combo["sound_device"]>>
                           ELSE <<"(introduce new sound device)">>
        first == Take(unexplored_imagery, 3)
    IN  [themes |-> selected_themes,
         sound_devices |-> selected_sounds,
         unexplored_imagery |-> [i \in DOMAIN first |-> first[i]["imagery"]],
         encourage_new |-> TRUE,
         structure |-> [experimental |-> TRUE, break_conventions |-> TRUE],
         approach |-> "create_new",
         rationale |-> <<"Pioneering unexplored combination: ", selected_themes[1],
                         " with ", selected_sounds[1]>>]

\* build_prompt_for_route with the loyal strategy from a loyalty of 0.7 on
BuildPromptLoyalFromSeven(G, personality) ==
    LET rebellious_mode == Get(personality, "rebellious_mode")
        constraints ==
            IF GetOr(personality, "loyalty_to_canon", 5) >= 7
            THEN BuildLoyalConstraints(G, personality)
            ELSE IF rebellious_mode = "ignore" THEN BuildIgnoreConstraints(G, personality)
            ELSE IF rebellious_mode = "invert" THEN BuildInvertConstraints(G, personality)
            ELSE IF rebellious_mode = "create_new" THEN BuildCreateNewConstraints(G, personality)
            ELSE BuildBalancedConstraints(G, personality)
    IN  IF IsRaised(constraints) THEN constraints
        ELSE [constraints |-> constraints,
              strategy |-> IF GetOr(personality, "loyalty_to_canon", 5) >= 7
                           THEN "following established patterns"
                           ELSE "balancing tradition and innovation"]

\* build_prompt_for_route, step 1: the strategy and the constraints
BuildPromptForRoute(G, personality) ==
    LET loyalty == GetOr(personality, "loyalty_to_canon", 5)
        rebellious_mode == Get(personality, "rebellious_mode")
        constraints ==
            IF loyalty > 7 THEN BuildLoyalConstraints(G, personality)
            ELSE IF rebellious_mode = "ignore" THEN BuildIgnoreConstraints(G, personality)
            ELSE IF rebellious_mode = "invert" THEN BuildInvertConstraints(G, personality)
            ELSE IF rebellious_mode = "create_new" THEN BuildCreateNewConstraints(G, personality)
            ELSE BuildBalancedConstraints(G, personality)
        strategy ==
            IF loyalty > 7 THEN "following established patterns"
            ELSE IF rebellious_mode = "ignore" THEN "exploring underutilized territory"
            ELSE IF rebellious_mode = "invert" THEN "subverting expectations"
            ELSE IF rebellious_mode = "create_new" THEN "pioneering new ground"
            ELSE "balancing tradition and innovation"
    IN  IF IsRaised(constraints) THEN constraints
        ELSE [constraints |-> constraints, strategy |-> strategy]

(***************************************************************************)
(* Narrative adherence: get_narrative_stance and NarrativeAdherenceTest.   *)
(* A story influence and a sub-score are in tenths, a poem's score and the *)
(* sum of the scores in hundredths.  PoemAnalyzer.analyze_poem is an       *)
(* external service: its answer for a poem is an input, failed when it     *)
(* raises.  The motif, emotion and fragment sub-scores are taken as the    *)
(* values their functions return, each between 0.0 and 1.0.  The average   *)
(* is a floating-point quotient: when it is exactly a threshold of the     *)
(* result, rounding decides on which side it falls.                        *)
(***************************************************************************)
\* MOCK_POETRY_COLLECTION["central_themes"]
central_themes ==
    <<"urban surveillance and observation",
      "movement as freedom and control",
      "community formation in transit spaces",
      "technology mediating human connection",
      "the politics of public space">>

\* str.lower(), on the themes an analysis holds
LowerTheme(t) ==
    IF t = "Urban Surveillance and Observation" THEN "urban surveillance and observation"
    ELSE t

\* get_narrative_stance with the two bounds exclusive
StanceExclusive(story_influence) ==
    IF story_influence < 3 THEN "opposing"
    ELSE IF story_influence > 7 THEN "supporting"
    ELSE "ambivalent"

\* get_narrative_stance(story_influence)
get_narrative_stance(story_influence) ==
    IF story_influence <= 3 THEN "opposing"
    ELSE IF story_influence >= 7 THEN "supporting"
    ELSE "ambivalent"

\* _calculate_theme_alignment with the overlap normalised by 5, the number of
\* canonical themes
ThemeAlignmentByAll(poem_themes, expected_stance) ==
    LET canonical_lower == {LowerTheme(central_themes[i]) : i \in DOMAIN central_themes}
        overlap == Cardinality({LowerTheme(t) : t \in poem_themes} \cap canonical_lower)
    IN  IF expected_stance = "supporting" THEN 2 * overlap
        ELSE IF expected_stance = "opposing" THEN 10 - 2 * overlap
        ELSE IF overlap = 1 THEN 10 ELSE IF overlap = 0 THEN 7 ELSE 5

\* _calculate_theme_alignment(poem_themes, expected_stance)
CalculateThemeAlignment(poem_themes, expected_stance) ==
    LET canonical_lower == {LowerTheme(central_themes[i]) : i \in DOMAIN central_themes}
        poem_themes_lower == {LowerTheme(t) : t \in poem_themes}
        overlap == Cardinality(poem_themes_lower \cap canonical_lower)
    IN  IF expected_stance = "supporting"
        THEN (IF 5 * overlap < 10 THEN 5 * overlap ELSE 10)
        ELSE IF expected_stance = "opposing"
        THEN (IF 10 - 5 * overlap > 0 THEN 10 - 5 * overlap ELSE 0)
        ELSE IF overlap = 1 THEN 10
        ELSE IF overlap = 0 THEN 7
        ELSE 5

\* _analyze_poem_adherence: the score and the theme alignment, for the answer of
\* the analyzer
AnalyzePoemAdherence(analysis, expected_stance) ==
    IF analysis.failed THEN [adherence_score |-> 0, error |-> TRUE]
    ELSE LET theme_alignment == CalculateThemeAlignment(analysis.themes, expected_stance)
         IN  [adherence_score |-> 4 * theme_alignment + 3 * analysis.motif_score
                                  + 2 * analysis.emotion_score + 1 * analysis.fragment_score,
              error |-> FALSE,
              adherence_factors |->
                  [theme_alignment |-> theme_alignment,
                   motif_adherence |-> analysis.motif_score,
                   emotion_alignment |-> analysis.emotion_score,
                   narrative_fragments |-> analysis.fragment_score],
              poem_themes |-> analysis.themes]

\* avg_adherence >= threshold, for the sum of the scores of n poems: the answers
\* that the floating-point average can give
AtLeast(total, n, threshold) ==
    IF total > threshold * n THEN {TRUE}
    ELSE IF total = threshold * n THEN {TRUE, FALSE}
    ELSE {FALSE}

\* the results test_route_narrative_adherence can give for the scores
TestResults(total, n) ==
    {IF high THEN "HIGH_ADHERENCE"
     ELSE IF moderate THEN "MODERATE_ADHERENCE"
     ELSE IF low THEN "LOW_ADHERENCE"
     ELSE "POOR_ADHERENCE" :
        high \in AtLeast(total, n, 80), moderate \in AtLeast(total, n, 60),
        low \in AtLeast(total, n, 40)}

\* test_route_narrative_adherence: the results it can return, given the answers
\* of the analyzer for the poems of the route
TestRouteNarrativeAdherence(G, route_id, story_influence, analyses) ==
    LET expected_stance == get_narrative_stance(story_influence)
        route_poems == PoemsOfRoute(G, route_id)
        detailed_analysis ==
            [i \in DOMAIN route_poems |->
                AnalyzePoemAdherence(analyses[route_poems[i]], expected_stance)]
        total == Sum([i \in DOMAIN route_poems |-> detailed_analysis[i].adherence_score])
    IN  IF route_poems = <<>>
        THEN {[route_id |-> route_id, story_influence |-> story_influence,
               expected_stance |-> expected_stance, test_result |-> "NO_POEMS"]}
        ELSE {[route_id |-> route_id, story_influence |-> story_influence,
               expected_stance |-> expected_stance,
               avg_adherence_score |-> [num |-> total, den |-> Len(route_poems)],
               test_result |-> result,
               poems_analyzed |-> Len(route_poems),
               detailed_analysis |-> detailed_analysis] :
                 result \in TestResults(total, Len(route_poems))}

\* influence_levels of the comprehensive mode
influence_levels == <<1, 3, 5, 7, 9>>

(***************************************************************************)
(* Inputs of the model.                                                    *)
(***************************************************************************)
P1 == <<"p1">>
P2 == <<"p2">>
PoemIds == {P1, P2}

\* entity names: "A b", "a b" and "a  b" (two spaces); "x"; "i"; "e"
Name_A_b == <<"A", " ", "b">>
Name_a_b == <<"a", " ", "b">>
Name_a__b == <<"a", " ", " ", "b">>
Name_x == <<"x">>
Name_i == <<"i">>
Name_e == <<"e">>

\* the lists of at most n names of S
ListsOf(S, n) == UNION {[1..k -> S] : k \in 0..n}

Times == {"t0"}

\* a poem with no entity list given
BarePoem ==
    [themes |-> <<>>, imagery |-> <<>>, emotions |-> <<>>, sound_devices |-> <<>>,
     structure_metadata |-> EmptyDict, sound_metadata |-> EmptyDict,
     metadata |-> EmptyDict,
     title |-> "T", text |-> "x", route_id |-> "R1", narrative_role |-> "route_generated"]

\* poems that differ in their themes: every list of at most two of the three names
ThemePoems ==
    {[BarePoem EXCEPT !.themes = th] :
        th \in ListsOf({Name_A_b, Name_a_b, Name_a__b}, 2)}

\* poems with no theme or with the one theme "a b"
OneThemePoems == {BarePoem, [BarePoem EXCEPT !.themes = <<Name_a_b>>]}

\* the ids a caller of create_narrative_connection gives: the poems, and the id
\* of the theme "a b"
ConnIds == PoemIds \cup {EntityId("theme", Name_a_b)}

\* a connection with the default type and strength (1.0, in tenths) and no notes
DefaultConnection ==
    [connection_type |-> "narrative_extension", strength |-> 10, notes |-> None]

\* a poem with every kind of entity, the theme "a b" twice (in two casings), a
\* structure, sound patterns and a metadata entry whose value is None
FullPoem ==
    [BarePoem EXCEPT !.themes = <<Name_A_b, Name_a_b>>,
                     !.imagery = <<Name_i>>,
                     !.emotions = <<Name_e>>,
                     !.sound_devices = <<Name_x>>,
                     !.structure_metadata = [line_count |-> 2],
                     !.sound_metadata = [rhyme_type |-> "slant"],
                     !.metadata = [mood |-> None]]

\* the full poem, and the bare poem given narrative_role="unassigned"
StorePoems == {FullPoem, [BarePoem EXCEPT !.narrative_role = "unassigned"]}

\* poems for the queries: no theme, the theme "e", or the themes "a b" and "e",
\* each with or without the sound device "x"
QueryPoems ==
    {[BarePoem EXCEPT !.themes = th, !.sound_devices = sd] :
        th \in {<<>>, <<Name_e>>, <<Name_a_b, Name_e>>}, sd \in {<<>>, <<Name_x>>}}

\* the pairs of entity types and the limits given to get_unexplored_combinations
TypePairs == {<<"theme", "sound_device">>, <<"sound_device", "theme">>, <<"theme", "theme">>}
Limits == {1, 10}

\* the ids and the types given to get_inverse_pattern
InverseIds == {EntityId("sound_device", Name_x), EntityId("theme", Name_a_b)}
PatternTypes == {"theme", "sound_device"}

\* the routes, and the structures a poem is given: none, or a line_count
Routes == {"R1", "R2"}
LineCounts == {-3, -1, 0, 2, 6}
MetricPoems ==
    {[BarePoem EXCEPT !.route_id = r, !.structure_metadata = st] :
        r \in Routes,
        st \in {EmptyDict} \cup {[line_count |-> k] : k \in LineCounts}}

\* poems of a route, without entities
RoutePoems == {[BarePoem EXCEPT !.route_id = r] : r \in Routes}

\* story influences of a test, in tenths
Influences == {5, 9}

\* the themes an analysis can hold: canonical themes, one of them capitalised,
\* and a theme of its own
ThemeSets ==
    {{"urban surveillance and observation"},
     {"urban surveillance and observation", "movement as freedom and control"},
     {"Urban Surveillance and Observation", "the politics of public space"},
     {"movement as freedom and control", "the politics of public space", "trains at night"},
     {"urban surveillance and observation", "movement as freedom and control",
      "community formation in transit spaces"}}

\* motif, emotion and fragment sub-scores, in tenths
SubScores == {<<0, 0, 0>>, <<5, 5, 5>>, <<10, 10, 10>>}

\* the answers of the analyzer for a poem
FailedAnalysis ==
    [failed |-> TRUE, themes |-> {}, motif_score |-> 0, emotion_score |-> 0,
     fragment_score |-> 0]
Analyses ==
    {FailedAnalysis} \cup
    {[failed |-> FALSE, themes |-> th, motif_score |-> sc[1], emotion_score |-> sc[2],
      fragment_score |-> sc[3]] : th \in ThemeSets, sc \in SubScores}

\* the answers of the analyzer during a sweep
SweepAnalyses ==
    {a \in Analyses : a.failed \/ (a.motif_score = a.fragment_score /\ Cardinality(a.themes) = 2)}

\* the roles the callers of add_poem give, the roles of the mark operations, and
\* the roles given to remove_poems_by_narrative_role
GivenRoles == {"route_generated", "unassigned"}
MarkRoles == {"core", "extension", "variation"}
RemovedRoles == {"core", "unassigned", "route_generated"}

\* poems with one of the given roles, with or without the theme "a b"
RolePoems ==
    {[BarePoem EXCEPT !.narrative_role = r, !.themes = th] :
        r \in GivenRoles, th \in {<<>>, <<Name_a_b>>}}

\* confirm_callback: none, or one with an answer for each poem
NoCallback == [given |-> FALSE, answer |-> [p \in PoemIds |-> TRUE]]
Callbacks == {NoCallback} \cup {[given |-> TRUE, answer |-> f] : f \in [PoemIds -> BOOLEAN]}

\* poems of route R1: the bare poem, one with the theme "a b" and two lines, one
\* with the theme, the sound device "x" and six lines, and one with the sound
\* device only
PurePoems ==
    {BarePoem,
     [BarePoem EXCEPT !.themes = <<Name_a_b>>, !.structure_metadata = [line_count |-> 2]],
     [BarePoem EXCEPT !.themes = <<Name_a_b>>, !.sound_devices = <<Name_x>>,
                      !.structure_metadata = [line_count |-> 6]],
     [BarePoem EXCEPT !.sound_devices = <<Name_x>>]}

\* the thresholds given to get_canonical_themes: the one of
\* _build_balanced_constraints and the default
BalancedMinFrequency == 2
MinFrequencies == {BalancedMinFrequency, CanonicalMinFrequency}

\* poems for the prompt builder: one with two themes, a sound device and an
\* emotion, one with other entities of every type, and one with four themes and
\* three sound devices
PoemXE ==
    [BarePoem EXCEPT !.themes = <<Name_x, Name_e>>, !.sound_devices = <<Name_x>>,
                     !.emotions = <<Name_e>>]
PoemI ==
    [BarePoem EXCEPT !.themes = <<Name_i>>, !.sound_devices = <<Name_i, Name_e>>,
                     !.emotions = <<Name_i>>, !.imagery = <<Name_i>>, !.route_id = "R2"]
PoemFour ==
    [BarePoem EXCEPT !.themes = <<Name_x, Name_e, Name_i, Name_a_b>>,
                     !.sound_devices = <<Name_x, Name_i, Name_e>>]

\* the calls of add_poem that build the graph the prompt builder reads
PromptAdds == {<<P1, PoemXE>>, <<P1, PoemFour>>, <<P2, PoemI>>}

\* theme_affinities and sound_preferences of a route, in tenths
ThemeAffinities == <<<<Name_e, 6>>, <<Name_i, 2>>, <<Name_a_b, 9>>>>
SoundPreferences == <<<<Name_e, 3>>, <<Name_x, 8>>>>

\* personalities: loyal ones, ones of a loyalty of exactly 0.7 for each
\* rebellious_mode, an unknown one and none, with and without preferences, and
\* ones that give no loyalty_to_canon
PromptPersonalities ==
    {[loyalty_to_canon |-> 8, rebellious_mode |-> mode,
      theme_affinities |-> ThemeAffinities, sound_preferences |-> SoundPreferences] :
        mode \in {"invert", None}}
    \cup {[loyalty_to_canon |-> 8]}
    \cup {[loyalty_to_canon |-> 7, rebellious_mode |-> mode,
           theme_affinities |-> ThemeAffinities, sound_preferences |-> SoundPreferences] :
             mode \in {"ignore", "invert", "create_new", "chaos", None}}
    \cup {[rebellious_mode |-> mode] : mode \in {"invert", "create_new"}}
    \cup {[loyalty_to_canon |-> 7, theme_affinities |-> ThemeAffinities]}

\* the limits and the types given to get_unexplored_combinations
SmallLimits == {0, 1, 2}
PromptTypePairs == {<<"theme", "sound_device">>, <<"theme", "emotion">>}

\* personalities of moderate loyalty, one for each rebellious_mode and one with
\* none
Personalities ==
    {[loyalty_to_canon |-> 5, rebellious_mode |-> mode] :
        mode \in {"ignore", "invert", "create_new", None}}

(***************************************************************************)
(* The state machine.  Every call is one step.                             *)
(***************************************************************************)
\* the store as constructed by ExtendedPoetryGraph(path), no file at path
InitWith(paths) ==
    /\ graph = EmptyGraph
    /\ graph_path \in paths
    /\ disk = EmptyDict
    /\ last = [op |-> "init"]
    /\ nops = 0
    /\ deps = NoInstance
    /\ clock = 1

Init == InitWith({"graph.json"})

\* add_poem(poem_id, ..., themes, imagery, emotions, sound_devices, ...)
add_poem(poem_id, in, now) ==
    /\ graph' = AddPoemGraph(graph, poem_id, in, now)
    /\ last' = [op |-> "add_poem", poem_id |-> poem_id, in |-> in, ret |-> None]
    /\ nops' = nops + 1
    /\ UNCHANGED <<graph_path, disk, deps, clock>>

\* remove_poem(poem_id, cleanup_orphaned_entities)
remove_poem(poem_id, cleanup) ==
    /\ LET r == RemovePoemGraph(graph, poem_id, cleanup)
       IN  /\ graph' = r.g
           /\ last' = [op |-> "remove_poem", poem_id |-> poem_id, cleanup |-> cleanup,
                       ret |-> r.ret]
    /\ nops' = nops + 1
    /\ UNCHANGED <<graph_path, disk, deps, clock>>

\* create_narrative_connection(source_poem_id, target_poem_id, ...)
create_narrative_connection(source, target, c, now) ==
    /\ LET r == CreateNarrativeConnectionGraph(graph, source, target, c, now)
       IN  /\ graph' = r.g
           /\ last' = [op |-> "create_narrative_connection", source |-> source,
                       target |-> target, ret |-> r.ret]
    /\ nops' = nops + 1
    /\ UNCHANGED <<graph_path, disk, deps, clock>>

\* add_narrative_connection(poem_id_1, poem_id_2, connection_type, strength, notes)
add_narrative_connection(poem_id_1, poem_id_2, c, now) ==
    /\ graph' = AddNarrativeConnectionGraph(graph, poem_id_1, poem_id_2, c, now)
    /\ last' = [op |-> "add_narrative_connection", source |-> poem_id_1,
                target |-> poem_id_2, ret |-> None]
    /\ nops' = nops + 1
    /\ UNCHANGED <<graph_path, disk, deps, clock>>

\* clear_narrative_role(poem_id)
clear_narrative_role(poem_id) ==
    /\ LET r == ClearNarrativeRoleGraph(graph, poem_id)
       IN  /\ graph' = r.g
           /\ last' = [op |-> "clear_narrative_role", poem_id |-> poem_id, ret |-> r.ret]
    /\ nops' = nops + 1
    /\ UNCHANGED <<graph_path, disk, deps, clock>>

\* save_graph(path, format)
save_graph(path, format) ==
    /\ LET r == SaveGraphDisk(graph, graph_path, disk, path, format)
       IN  /\ disk' = r.disk
           /\ last' = [op |-> "save_graph", path |-> path, format |-> format, ret |-> r.ret]
    /\ nops' = nops + 1
    /\ UNCHANGED <<graph, graph_path, deps, clock>>

\* load_graph(path)
load_graph(path) ==
    /\ LET r == LoadGraphState(graph, graph_path, disk, path)
       IN  /\ graph' = r.g
           /\ graph_path' = r.graph_path
           /\ last' = [op |-> "load_graph", path |-> path, ret |-> r.ret]
    /\ nops' = nops + 1
    /\ UNCHANGED <<disk, deps, clock>>

\* the queries read the graph and change nothing
Query(call) ==
    /\ last' = call
    /\ nops' = nops + 1
    /\ UNCHANGED <<graph, graph_path, disk, deps, clock>>

\* get_unexplored_combinations(entity_type_1, entity_type_2, limit)
get_unexplored_combinations(entity_type_1, entity_type_2, limit) ==
    Query([op |-> "get_unexplored_combinations",
           entity_type_1 |-> entity_type_1, entity_type_2 |-> entity_type_2,
           limit |-> limit,
           ret |-> GetUnexploredCombinations(graph, entity_type_1, entity_type_2, limit)])

\* get_inverse_pattern(entity_id, pattern_type)
get_inverse_pattern(entity_id, pattern_type) ==
    Query([op |-> "get_inverse_pattern", entity_id |-> entity_id,
           pattern_type |-> pattern_type,
           ret |-> GetInversePattern(graph, entity_id, pattern_type)])

\* get_canonical_themes(min_frequency)
get_canonical_themes(min_frequency) ==
    Query([op |-> "get_canonical_themes", min_frequency |-> min_frequency,
           ret |-> GetCanonicalThemes(graph, min_frequency)])

\* get_rare_themes(max_frequency)
get_rare_themes(max_frequency) ==
    Query([op |-> "get_rare_themes", max_frequency |-> max_frequency,
           ret |-> GetRareThemes(graph, max_frequency)])

\* mark_poem_as_core, mark_poem_as_extension, mark_poem_as_variation
mark_poem_as(role, poem_id) ==
    /\ LET r == SetNarrativeRole(graph, poem_id, role)
       IN  /\ graph' = r.g
           /\ last' = [op |-> "mark_poem_as_" \o role, poem_id |-> poem_id, ret |-> r.ret]
    /\ nops' = nops + 1
    /\ UNCHANGED <<graph_path, disk, deps, clock>>

\* remove_narrative_connection(source_poem_id, target_poem_id)
remove_narrative_connection(source, target) ==
    /\ LET r == RemoveNarrativeConnectionGraph(graph, source, target)
       IN  /\ graph' = r.g
           /\ last' = [op |-> "remove_narrative_connection", source |-> source,
                       target |-> target, ret |-> r.ret]
    /\ nops' = nops + 1
    /\ UNCHANGED <<graph_path, disk, deps, clock>>

\* remove_poems_by_narrative_role(role, confirm_callback)
remove_poems_by_narrative_role(role, confirm_callback) ==
    /\ LET r == RemovePoemsByNarrativeRole(graph, role, confirm_callback)
       IN  /\ graph' = r.g
           /\ last' = [op |-> "remove_poems_by_narrative_role", role |-> role,
                       confirm_callback |-> confirm_callback,
                       calls |-> r.calls, ret |-> r.ret]
    /\ nops' = nops + 1
    /\ UNCHANGED <<graph_path, disk, deps, clock>>

\* get_poem(poem_id)
get_poem(poem_id) ==
    Query([op |-> "get_poem", poem_id |-> poem_id, ret |-> GetPoem(graph, poem_id)])

(***************************************************************************)
(* Poems and their themes: add_poem and remove_poem.                       *)
(***************************************************************************)
Next ==
    \/ \E p \in PoemIds, in \in ThemePoems, now \in Times :
          nops < MaxOps /\ add_poem(p, in, now)
    \/ \E p \in PoemIds, c \in BOOLEAN :
          nops < MaxOps /\ remove_poem(p, c)

Spec == Init /\ [][Next]_vars

(***************************************************************************)
(* Poems, one theme and narrative connections: add_poem, remove_poem and   *)
(* create_narrative_connection, whose two ids are any ids of the graph.    *)
(***************************************************************************)
NextConn ==
    \/ \E p \in PoemIds, in \in OneThemePoems, now \in Times :
          nops < MaxOpsConn /\ add_poem(p, in, now)
    \/ \E p \in PoemIds, c \in BOOLEAN :
          nops < MaxOpsConn /\ remove_poem(p, c)
    \/ \E u \in ConnIds, v \in PoemIds, now \in Times :
          nops < MaxOpsConn /\ create_narrative_connection(u, v, DefaultConnection, now)

SpecConn == Init /\ [][NextConn]_vars

(***************************************************************************)
(* The two ways to a narrative connection: add_poem,                       *)
(* create_narrative_connection and add_narrative_connection, the two ids   *)
(* any of the ids of the poems and of the theme.                           *)
(***************************************************************************)
NextLink ==
    \/ \E p \in PoemIds, in \in OneThemePoems, now \in Times :
          nops < MaxOpsLink /\ add_poem(p, in, now)
    \/ \E u \in ConnIds, v \in ConnIds, now \in Times :
          nops < MaxOpsLink /\ create_narrative_connection(u, v, DefaultConnection, now)
    \/ \E u \in ConnIds, v \in ConnIds, now \in Times :
          nops < MaxOpsLink /\ add_narrative_connection(u, v, DefaultConnection, now)

SpecLink == Init /\ [][NextLink]_vars

(***************************************************************************)
(* The shared instance of the process: get_poetry_graph, initialize_graph, *)
(* add_poem through an instance a caller holds, and the shutdown of the    *)
(* application.                                                            *)
(***************************************************************************)
\* get_poetry_graph()
get_poetry_graph ==
    /\ LET r == GetPoetryGraph(deps, disk)
       IN  /\ deps' = r.deps
           /\ last' = [op |-> "get_poetry_graph", ret |-> r.ret]
    /\ nops' = nops + 1
    /\ UNCHANGED <<graph, graph_path, disk, clock>>

\* initialize_graph(graph_path)
initialize_graph(path) ==
    /\ LET r == InitializeGraph(deps, disk, path)
       IN  /\ deps' = r.deps
           /\ last' = [op |-> "initialize_graph", path |-> path, ret |-> r.ret]
    /\ nops' = nops + 1
    /\ UNCHANGED <<graph, graph_path, disk, clock>>

\* graph.add_poem(...) by the caller that was given the instance k
instance_add_poem(k, poem_id, in, now) ==
    /\ deps' = [deps EXCEPT !.instances[k].g = AddPoemGraph(@, poem_id, in, now)]
    /\ last' = [op |-> "instance_add_poem", instance |-> k, poem_id |-> poem_id,
                in |-> in, ret |-> None]
    /\ nops' = nops + 1
    /\ UNCHANGED <<graph, graph_path, disk, clock>>

\* the shutdown of lifespan: get_poetry_graph().save_graph()
lifespan_shutdown ==
    /\ LET r == GetPoetryGraph(deps, disk)
       IN  /\ deps' = r.deps
           /\ IF IsRaised(r.ret)
              THEN /\ disk' = disk
                   /\ last' = [op |-> "lifespan_shutdown", ret |-> r.ret]
              ELSE LET held == r.deps.instances[r.ret.instance]
                       saved == SaveGraphDisk(held.g, held.graph_path, disk, None, "json")
                   IN  /\ disk' = saved.disk
                       /\ last' = [op |-> "lifespan_shutdown", ret |-> r.ret]
    /\ nops' = nops + 1
    /\ UNCHANGED <<graph, graph_path, clock>>

NextShared ==
    \/ nops < MaxOpsShared /\ get_poetry_graph
    \/ \E path \in {None, "graph.json"} :
          nops < MaxOpsShared /\ initialize_graph(path)
    \/ \E k \in DOMAIN deps.instances, p \in PoemIds, in \in OneThemePoems, now \in Times :
          nops < MaxOpsShared /\ instance_add_poem(k, p, in, now)
    \/ nops < MaxOpsShared /\ lifespan_shutdown

SpecShared == Init /\ [][NextShared]_vars

(***************************************************************************)
(* Generation: generate_poem_for_route on the store, and the clock.        *)
(***************************************************************************)
\* the seconds the clock can show
MaxClock == MaxOpsGenerate + 1

\* strftime('%Y%m%d_%H%M%S') of the second the clock shows
Stamp(second) ==
    <<"20250101_000001", "20250101_000002", "20250101_000003", "20250101_000004",
      "20250101_000005">>[second]

\* f"poem_{route_id}_{datetime.now().strftime('%Y%m%d_%H%M%S')}"
\* (an id is the sequence of its parts)
GeneratedPoemId(route_id, second) == <<"poem_", route_id, "_", Stamp(second)>>

\* load_route_personality(route_id), no data/route_personalities.json
DefaultPersonality(route_id) ==
    [name |-> route_id, loyalty_to_canon |-> 5, rebellious_mode |-> None,
     sound_preferences |-> <<>>, theme_affinities |-> <<>>]

\* what the generator gives: an exception, a message with no content, or a
\* content of blanks or of a text (a string is the sequence of its characters)
Generated == {Raised("APIError"), [message |-> None], [content |-> <<" ">>],
              [content |-> <<"x", " ">>], [content |-> <<"y">>]}

\* what analyze_poem gives: an exception or the lists it found
AnalyzerResults ==
    {Raised("JSONDecodeError"),
     [themes |-> <<Name_x, Name_e>>, imagery |-> <<>>, emotions |-> <<Name_e>>,
      sound_devices |-> <<Name_x>>, structure_metadata |-> EmptyDict,
      sound_metadata |-> EmptyDict]}

\* the metadata used when the analysis failed
DefaultAnalysis ==
    [themes |-> <<>>, imagery |-> <<>>, emotions |-> <<>>, sound_devices |-> <<>>,
     structure_metadata |-> EmptyDict, sound_metadata |-> EmptyDict]

\* the titles generate_creative_title chooses from
Titles == {"Transit Dreams", "Urban Journey"}

\* generate_poem_for_route from the call of the generator on: the graph and
\* the files left, and the dictionary returned
GenerateAnalyzeAdd(G, default_path, files, route_id, personality, generated, analysed, title, second, now) ==
    LET unchanged(ret) == [g |-> G, disk |-> files, ret |-> ret]
        poem_text == IF "content" \in DOMAIN generated /\ generated.content # <<>>
                     THEN Strip(generated.content)
                     ELSE <<>>
        metadata == IF IsRaised(analysed) THEN DefaultAnalysis ELSE analysed
        poem_id == GeneratedPoemId(route_id, second)
        added == AddPoemGraph(G, poem_id,
                    [themes |-> metadata.themes, imagery |-> metadata.imagery,
                     emotions |-> metadata.emotions,
                     sound_devices |-> metadata.sound_devices,
                     structure_metadata |-> metadata.structure_metadata,
                     sound_metadata |-> metadata.sound_metadata,
                     metadata |-> [context |-> None,
                                   loyalty_to_canon |-> Get(personality, "loyalty_to_canon"),
                                   rebellious_mode |-> Get(personality, "rebellious_mode")],
                     title |-> title, text |-> poem_text, route_id |-> route_id,
                     narrative_role |-> "route_generated"], now)
        saved == SaveGraphDisk(added, default_path, files, None, "json")
    IN  IF IsRaised(generated) THEN unchanged([error |-> generated.raised])
        ELSE IF poem_text = <<>> THEN unchanged([error |-> "Generated poem is empty"])
        ELSE [g |-> added, disk |-> saved.disk,
              ret |-> [poem_id |-> poem_id, route_id |-> route_id, title |-> title,
                       text |-> poem_text]]

\* generate_poem_for_route(route_id, graph=graph): the prompt is built from the
\* graph; what the generator, the analyzer and the choice of the title give
\* is any of their outcomes
generate_poem_for_route(route_id) ==
    /\ LET personality == DefaultPersonality(route_id)
           prompt == BuildPromptForRoute(graph, personality)
       IN  IF IsRaised(prompt)
           THEN /\ last' = [op |-> "generate_poem_for_route", route_id |-> route_id,
                            ret |-> prompt]
                /\ UNCHANGED <<graph, disk>>
           ELSE \E generated \in Generated, analysed \in AnalyzerResults,
                   title \in Titles, now \in Times :
                    LET r == GenerateAnalyzeAdd(graph, graph_path, disk, route_id,
                                                personality, generated, analysed, title,
                                                clock, now)
                    IN  /\ graph' = r.g
                        /\ disk' = r.disk
                        /\ last' = [op |-> "generate_poem_for_route",
                                    route_id |-> route_id, ret |-> r.ret]
    /\ nops' = nops + 1
    /\ UNCHANGED <<graph_path, deps, clock>>

\* a second passes
tick ==
    /\ clock < MaxClock
    /\ clock' = clock + 1
    /\ last' = [op |-> "tick"]
    /\ nops' = nops + 1
    /\ UNCHANGED <<graph, graph_path, disk, deps>>

NextGenerate ==
    \/ \E r \in Routes : nops < MaxOpsGenerate /\ generate_poem_for_route(r)
    \/ nops < MaxOpsGenerate /\ tick

SpecGenerate == Init /\ [][NextGenerate]_vars

(***************************************************************************)
(* The store and its file: poems with all entity types, narrative          *)
(* connections between poems, cleared narrative roles, save_graph and      *)
(* load_graph.  The store is constructed with or without a default path.   *)
(***************************************************************************)
InitStore == InitWith({None, "graph.json"})

NextStore ==
    \/ \E p \in PoemIds, in \in StorePoems, now \in Times :
          nops < MaxOpsStore /\ add_poem(p, in, now)
    \/ \E u \in PoemIds, v \in PoemIds, now \in Times :
          nops < MaxOpsStore /\ create_narrative_connection(u, v, DefaultConnection, now)
    \/ \E p \in PoemIds :
          nops < MaxOpsStore /\ clear_narrative_role(p)
    \/ \E path \in {None, "graph.json"}, format \in {"json", "pickle"} :
          nops < MaxOpsStore /\ save_graph(path, format)
    \/ \E path \in {"graph.json"} :
          nops < MaxOpsStore /\ load_graph(path)

SpecStore == InitStore /\ [][NextStore]_vars

\* ExtendedPoetryGraph(graph_path), over the files as they are: the new store
\* takes the place of the old one unless the constructor raises
construct(path) ==
    /\ LET r == Construct(disk, path)
       IN  /\ graph' = IF r.ret = None THEN r.g ELSE graph
           /\ graph_path' = IF r.ret = None THEN r.graph_path ELSE graph_path
           /\ last' = [op |-> "construct", path |-> path, ret |-> r.ret]
    /\ nops' = nops + 1
    /\ UNCHANGED <<disk, deps, clock>>

\* the paths given to save_graph, and to load_graph and the constructor: a JSON
\* file, a pickle file, and a path that is never written
SavePaths == {None, "graph.json", "graph.pkl"}
LoadPaths == {"graph.json", "graph.pkl", "new.json"}

(***************************************************************************)
(* The store and its files: add_poem, save_graph and load_graph in either  *)
(* format, and the construction of a store over the files.                 *)
(***************************************************************************)
NextFile ==
    \/ \E p \in PoemIds, in \in OneThemePoems, now \in Times :
          nops < MaxOpsFile /\ add_poem(p, in, now)
    \/ \E path \in SavePaths, format \in {"json", "pickle"} :
          nops < MaxOpsFile /\ save_graph(path, format)
    \/ \E path \in LoadPaths :
          nops < MaxOpsFile /\ load_graph(path)
    \/ \E path \in LoadPaths \cup {None} :
          nops < MaxOpsFile /\ construct(path)

SpecFile == InitStore /\ [][NextFile]_vars

(***************************************************************************)
(* The canon queries over poems with themes and sound devices.             *)
(***************************************************************************)
NextQuery ==
    \/ \E p \in PoemIds, in \in QueryPoems, now \in Times :
          nops < MaxOpsQuery /\ add_poem(p, in, now)
    \/ \E p \in PoemIds, c \in BOOLEAN :
          nops < MaxOpsQuery /\ remove_poem(p, c)
    \/ \E t \in TypePairs, limit \in Limits :
          nops < MaxOpsQuery /\ get_unexplored_combinations(t[1], t[2], limit)
    \/ \E e \in InverseIds, t \in PatternTypes :
          nops < MaxOpsQuery /\ get_inverse_pattern(e, t)
    \/ nops < MaxOpsQuery /\ get_canonical_themes(CanonicalMinFrequency)
    \/ nops < MaxOpsQuery /\ get_rare_themes(RareMaxFrequency)

SpecQuery == Init /\ [][NextQuery]_vars

\* get_structural_diversity_score(route_id)
get_structural_diversity_score(route_id) ==
    Query([op |-> "get_structural_diversity_score", route_id |-> route_id,
           ret |-> GetStructuralDiversityScore(graph, route_id)])

(***************************************************************************)
(* Routes and line counts: add_poem, remove_poem and the diversity score.  *)
(***************************************************************************)
NextMetrics ==
    \/ \E p \in PoemIds, in \in MetricPoems, now \in Times :
          nops < MaxOpsMetrics /\ add_poem(p, in, now)
    \/ \E p \in PoemIds, c \in BOOLEAN :
          nops < MaxOpsMetrics /\ remove_poem(p, c)
    \/ \E r \in Routes :
          nops < MaxOpsMetrics /\ get_structural_diversity_score(r)

SpecMetrics == Init /\ [][NextMetrics]_vars

\* the poems handed to the analyzer by a test of the route
AnalyzedPoems(G, route_id) ==
    {PoemsOfRoute(G, route_id)[i] : i \in DOMAIN PoemsOfRoute(G, route_id)}

\* NarrativeAdherenceTest.test_route_narrative_adherence(route_id, story_influence)
test_route_narrative_adherence(route_id, story_influence, analyses) ==
    \E result \in TestRouteNarrativeAdherence(graph, route_id, story_influence, analyses) :
        Query([op |-> "test_route_narrative_adherence", route_id |-> route_id,
               story_influence |-> story_influence, ret |-> result])

\* the results of test_route_narrative_adherence for the first k of the levels
RECURSIVE SweepResults(_, _, _, _, _)
SweepResults(G, route_id, influences, analyses, k) ==
    IF k = 0 THEN {<<>>}
    ELSE {Append(results, result) :
            results \in SweepResults(G, route_id, influences, analyses, k - 1),
            result \in TestRouteNarrativeAdherence(G, route_id, influences[k], analyses)}

\* NarrativeAdherenceTest.test_multiple_story_influences(route_id, influences),
\* the analyzer answering the same for a poem at every level
test_multiple_story_influences(route_id, influences, analyses) ==
    \E results \in SweepResults(graph, route_id, influences, analyses, Len(influences)) :
        Query([op |-> "test_multiple_story_influences", route_id |-> route_id,
               influences |-> influences,
               ret |-> [route_id |-> route_id, test_results |-> results]])

(***************************************************************************)
(* Narrative adherence: add_poem and remove_poem, the test at one story    *)
(* influence and the comprehensive mode.                                   *)
(***************************************************************************)
NextAdhere ==
    \/ \E p \in PoemIds, in \in RoutePoems, now \in Times :
          nops < MaxOpsAdhere /\ add_poem(p, in, now)
    \/ \E p \in PoemIds, c \in BOOLEAN :
          nops < MaxOpsAdhere /\ remove_poem(p, c)
    \/ \E r \in Routes, i \in Influences :
          \E analyses \in [AnalyzedPoems(graph, r) -> Analyses] :
              nops < MaxOpsAdhere /\ test_route_narrative_adherence(r, i, analyses)
    \/ \E r \in Routes :
          \E analyses \in [AnalyzedPoems(graph, r) -> SweepAnalyses] :
              nops < MaxOpsAdhere
              /\ test_multiple_story_influences(r, influence_levels, analyses)

SpecAdhere == Init /\ [][NextAdhere]_vars

\* PromptBuilder(graph).build_prompt_for_route(route_id, personality)
build_prompt_for_route(personality) ==
    Query([op |-> "build_prompt_for_route", personality |-> personality,
           ret |-> BuildPromptForRoute(graph, personality)])

(***************************************************************************)
(* The prompt builder: add_poem, create_narrative_connection between       *)
(* poems, build_prompt_for_route and get_unexplored_combinations.          *)
(***************************************************************************)
NextPrompt ==
    \/ \E a \in PromptAdds, now \in Times :
          nops < MaxOpsPrompt /\ add_poem(a[1], a[2], now)
    \/ \E source \in PoemIds, target \in PoemIds, now \in Times :
          nops < MaxOpsPrompt
          /\ create_narrative_connection(source, target, DefaultConnection, now)
    \/ \E personality \in PromptPersonalities :
          nops < MaxOpsPrompt /\ build_prompt_for_route(personality)
    \/ \E t \in PromptTypePairs, limit \in SmallLimits :
          nops < MaxOpsPrompt /\ get_unexplored_combinations(t[1], t[2], limit)

SpecPrompt == Init /\ [][NextPrompt]_vars

(***************************************************************************)
(* Mutations and queries: add_poem and remove_poem, the analytics queries  *)
(* and build_prompt_for_route.                                             *)
(***************************************************************************)
NextPure ==
    \/ \E p \in PoemIds, in \in PurePoems, now \in Times :
          nops < MaxOpsPure /\ add_poem(p, in, now)
    \/ \E p \in PoemIds, c \in BOOLEAN :
          nops < MaxOpsPure /\ remove_poem(p, c)
    \/ \E m \in MinFrequencies :
          nops < MaxOpsPure /\ get_canonical_themes(m)
    \/ nops < MaxOpsPure /\ get_rare_themes(RareMaxFrequency)
    \/ \E t \in TypePairs, limit \in Limits :
          nops < MaxOpsPure /\ get_unexplored_combinations(t[1], t[2], limit)
    \/ \E e \in InverseIds, t \in PatternTypes :
          nops < MaxOpsPure /\ get_inverse_pattern(e, t)
    \/ \E r \in Routes :
          nops < MaxOpsPure /\ get_structural_diversity_score(r)
    \/ \E personality \in Personalities :
          nops < MaxOpsPure /\ build_prompt_for_route(personality)

SpecPure == Init /\ [][NextPure]_vars

(***************************************************************************)
(* Narrative roles: add_poem, the mark operations, clear_narrative_role    *)
(* and remove_poems_by_narrative_role.                                     *)
(***************************************************************************)
NextRole ==
    \/ \E p \in PoemIds, in \in RolePoems, now \in Times :
          nops < MaxOpsRole /\ add_poem(p, in, now)
    \/ \E role \in MarkRoles, id \in ConnIds :
          nops < MaxOpsRole /\ mark_poem_as(role, id)
    \/ \E id \in ConnIds :
          nops < MaxOpsRole /\ clear_narrative_role(id)
    \/ \E role \in RemovedRoles, cb \in Callbacks :
          nops < MaxOpsRole /\ remove_poems_by_narrative_role(role, cb)

SpecRole == Init /\ [][NextRole]_vars

(***************************************************************************)
(* Poems, one theme, narrative connections and roles: every operation      *)
(* that takes the id of a poem, given the ids of poems that are or are not *)
(* in the graph and the id of a theme.                                     *)
(***************************************************************************)
NextNarr ==
    \/ \E p \in PoemIds, in \in OneThemePoems, now \in Times :
          nops < MaxOpsNarr /\ add_poem(p, in, now)
    \/ \E id \in ConnIds, c \in BOOLEAN :
          nops < MaxOpsNarr /\ remove_poem(id, c)
    \/ \E u \in ConnIds, v \in ConnIds, now \in Times :
          nops < MaxOpsNarr /\ create_narrative_connection(u, v, DefaultConnection, now)
    \/ \E u \in ConnIds, v \in ConnIds :
          nops < MaxOpsNarr /\ remove_narrative_connection(u, v)
    \/ \E role \in MarkRoles, id \in ConnIds :
          nops < MaxOpsNarr /\ mark_poem_as(role, id)
    \/ \E id \in ConnIds :
          nops < MaxOpsNarr /\ clear_narrative_role(id)
    \/ \E id \in ConnIds :
          nops < MaxOpsNarr /\ get_poem(id)

SpecNarr == Init /\ [][NextNarr]_vars

(***************************************************************************)
(* Vocabulary of the properties.                                           *)
(***************************************************************************)
IsPoem(G, n) == HasNode(G, n) /\ TypeOf(G, n) = "poem"
IsEntity(G, n) == HasNode(G, n) /\ IsEntityType(TypeOf(G, n))
PoemNodes(G) == {n \in DOMAIN G.attr : IsPoem(G, n)}
EntityNodes(G) == {n \in DOMAIN G.attr : IsEntity(G, n)}
ThemeNodes(G) == {n \in DOMAIN G.attr : TypeOf(G, n) = "theme"}

EntityEdgeTypes == {"has_theme", "contains_imagery", "conveys_emotion", "uses_sound_device"}

\* the number of entity edges that enter e from poem nodes
EntityInDegree(G, e) ==
    Cardinality({i \in DOMAIN Edges(G) :
        /\ Edges(G)[i].target = e
        /\ IsPoem(G, Edges(G)[i].source)
        /\ Get(Edges(G)[i].data, "type") \in EntityEdgeTypes})

\* the poems that reference entity e
Referencing(G, e) == {p \in PoemNodes(G) : HasEdge(G, p, e)}

RECURSIVE CollapseSpaces(_)
\* s with every run of spaces made one space
CollapseSpaces(s) ==
    IF Len(s) < 2 THEN s
    ELSE IF s[1] = " " /\ s[2] = " " THEN CollapseSpaces(Tail(s))
    ELSE <<s[1]>> \o CollapseSpaces(Tail(s))

\* the step taken is the call remove_poem(p, c), and it returned True
RemovedPoem(p, c) ==
    last' = [op |-> "remove_poem", poem_id |-> p, cleanup |-> c, ret |-> TRUE]

\* the step taken is a call add_poem(p, ...) whose theme list is th
AddedPoemWithThemes(p, th) ==
    /\ last'.op = "add_poem"
    /\ last'.poem_id = p
    /\ last'.in.themes = th

(***************************************************************************)
(* C1.  Cleanup removes an entity only if no remaining poem references it: *)
(* when remove_poem(p, cleanup_orphaned_entities=True) removes poem p,     *)
(* every entity that another poem references stays in the graph, still     *)
(* connected to that poem.  In particular a theme shared by p1 and p2      *)
(* survives the removal of p1.                                             *)
(***************************************************************************)
C1_SharedEntitySurvivesCleanup ==
    [][\A p \in PoemIds, q \in PoemIds :
          \A e \in EntityNodes(graph) :
              (/\ p # q
               /\ p \in Referencing(graph, e)
               /\ q \in Referencing(graph, e)
               /\ RemovedPoem(p, TRUE))
              => (HasNode(graph', e) /\ HasEdge(graph', q, e))]_vars

(***************************************************************************)
(* C2.  When poem P is the only poem that references theme T,              *)
(* remove_poem(P, cleanup_orphaned_entities=True) leaves T absent from the *)
(* graph, and remove_poem(P, cleanup_orphaned_entities=False) leaves T     *)
(* present with its usage_count unchanged.                                 *)
(***************************************************************************)
C2_UniqueThemeFollowsCleanupFlag ==
    [][\A p \in PoemIds :
          \A t \in ThemeNodes(graph) :
              Referencing(graph, t) = {p} =>
                  /\ RemovedPoem(p, TRUE) => ~HasNode(graph', t)
                  /\ RemovedPoem(p, FALSE) =>
                        /\ HasNode(graph', t)
                        /\ graph'.attr[t]["usage_count"] = graph.attr[t]["usage_count"]]_vars

(***************************************************************************)
(* C3.  Every entity node with at least one incoming entity edge from a    *)
(* poem has usage_count >= 1, and its usage_count is the number of entity  *)
(* edges that enter it from poem nodes.                                    *)
(***************************************************************************)
C3_UsageCountIsInDegree ==
    \A e \in EntityNodes(graph) :
        EntityInDegree(graph, e) >= 1 =>
            /\ graph.attr[e]["usage_count"] >= 1
            /\ graph.attr[e]["usage_count"] = EntityInDegree(graph, e)

(***************************************************************************)
(* C4.  A theme name given to add_poem for a new poem, in another letter   *)
(* casing than the name of a theme node that one other poem references and *)
(* whose usage_count is 1, creates no theme node: the existing node gets   *)
(* usage_count 2, both poems point to it, and it keeps the display name of *)
(* its first insertion.  A name with no such node creates the node under   *)
(* the name given, with usage_count 1.                                     *)
(***************************************************************************)
C4_CaseVariantsShareOneTheme ==
    [][\A p \in PoemIds, n \in {Name_A_b, Name_a_b, Name_a__b} :
          (AddedPoemWithThemes(p, <<n>>) /\ ~HasNode(graph, p)) =>
              LET same == {x \in ThemeNodes(graph) :
                              Lower(graph.attr[x]["name"]) = Lower(n)}
              IN  /\ \A x \in same :
                        (/\ graph.attr[x]["name"] # n
                         /\ graph.attr[x]["usage_count"] = 1
                         /\ \E q \in PoemIds \ {p} : Referencing(graph, x) = {q})
                        => /\ ThemeNodes(graph') = ThemeNodes(graph)
                           /\ graph'.attr[x]["usage_count"] = 2
                           /\ Referencing(graph', x) = Referencing(graph, x) \cup {p}
                           /\ graph'.attr[x]["name"] = graph.attr[x]["name"]
                  /\ same = {} =>
                        \E x \in ThemeNodes(graph') \ ThemeNodes(graph) :
                            /\ ThemeNodes(graph') = ThemeNodes(graph) \cup {x}
                            /\ graph'.attr[x]["name"] = n
                            /\ graph'.attr[x]["usage_count"] = 1
                            /\ Referencing(graph', x) = {p}]_vars

\* add_poem has just given poem p2 a theme name in another casing than the name
\* theme node x got from poem p1: one theme node, used twice
C4_Witness ==
    /\ last.op = "add_poem"
    /\ Len(last.in.themes) = 1
    /\ \E x \in ThemeNodes(graph) :
          /\ ThemeNodes(graph) = {x}
          /\ graph.attr[x]["name"] # last.in.themes[1]
          /\ Lower(graph.attr[x]["name"]) = Lower(last.in.themes[1])
          /\ graph.attr[x]["usage_count"] = 2
          /\ Referencing(graph, x) = PoemIds

(***************************************************************************)
(* C5.  Two names of one entity type that differ only in the amount of     *)
(* whitespace between words have the same id, for each of the four entity  *)
(* types, and so are one entity node.                                      *)
(***************************************************************************)
C5_SpacingVariantsShareOneNode ==
    \A x \in EntityNodes(graph), y \in EntityNodes(graph) :
        (/\ TypeOf(graph, x) = TypeOf(graph, y)
         /\ CollapseSpaces(graph.attr[x]["name"]) = CollapseSpaces(graph.attr[y]["name"]))
        => /\ x = y
           /\ \A i \in DOMAIN EntityTypes :
                 EntityId(EntityTypes[i], graph.attr[x]["name"])
                     = EntityId(EntityTypes[i], graph.attr[y]["name"])

(***************************************************************************)
(* C6.  One add_poem call for a new poem that lists two theme names with   *)
(* the same entity id, the entity not yet in the graph, creates one theme  *)
(* node with usage_count 1 and exactly one edge from the poem to it, and   *)
(* get_poem lists the theme once, under the first name.                    *)
(***************************************************************************)
C6_DuplicateInOneCallCountsOnce ==
    [][\A p \in PoemIds, n1 \in {Name_A_b, Name_a_b, Name_a__b},
          n2 \in {Name_A_b, Name_a_b, Name_a__b} :
          (/\ AddedPoemWithThemes(p, <<n1, n2>>)
           /\ EntityId("theme", n1) = EntityId("theme", n2)
           /\ ~HasNode(graph, p)
           /\ ~HasNode(graph, EntityId("theme", n1)))
          => LET t == EntityId("theme", n1)
             IN  /\ ThemeNodes(graph') = ThemeNodes(graph) \cup {t}
                 /\ graph'.attr[t]["usage_count"] = 1
                 /\ Len(KeyDict(graph', p, t)) = 1
                 /\ GetPoem(graph', p)["themes"] = <<n1>>]_vars

\* the number of edges from u to v that carry the attributes d
EdgeCount(G, u, v, d) ==
    Cardinality({i \in DOMAIN KeyDict(G, u, v) : KeyDict(G, u, v)[i].data = d})

\* the attribute dicts on the edges from u to v
EdgeData(G, u, v) == {KeyDict(G, u, v)[i].data : i \in DOMAIN KeyDict(G, u, v)}

\* G and H have the same nodes, the same attributes on every node, and the same
\* multiset of edges with their attributes
SameGraph(G, H) ==
    /\ DOMAIN G.attr = DOMAIN H.attr
    /\ \A n \in DOMAIN G.attr : G.attr[n] = H.attr[n]
    /\ \A u \in DOMAIN G.attr, v \in DOMAIN G.attr :
          \A d \in EdgeData(G, u, v) \cup EdgeData(H, u, v) :
              EdgeCount(G, u, v, d) = EdgeCount(H, u, v, d)

\* the path save_graph wrote to in the step taken
SavedPath == IF last'.path # None THEN last'.path ELSE graph_path

(***************************************************************************)
(* C7.  save_graph in JSON followed by load_graph of the file written      *)
(* gives the graph that was saved: the same nodes, the same multiset of    *)
(* edges, parallel edges included, and the same attributes on every node   *)
(* and edge, None values and an absent narrative_role included.  A store   *)
(* that holds another graph by then gets the saved one back.               *)
(***************************************************************************)
C7_SaveLoadRoundTrip ==
    [][/\ (/\ last'.op = "save_graph"
           /\ last'.format = "json"
           /\ last'.ret = None)
          => LET r == LoadGraphState(EmptyGraph, graph_path', disk', SavedPath)
             IN  /\ r.ret = None
                 /\ r.graph_path = SavedPath
                 /\ SameGraph(r.g, graph)
       /\ (/\ last'.op = "load_graph"
           /\ last'.ret = None
           /\ disk[last'.path].format = "json")
          => \A G \in {graph, EmptyGraph} :
                disk[last'.path].content = JsonDocument(NodeLinkData(G))
                    => SameGraph(graph', G)]_vars

\* save_graph has just written, as JSON, a graph that has two parallel has_theme
\* edges, all four entity types, a narrative connection whose notes are None, a
\* metadata value None and a poem with no narrative_role, and load_graph reads
\* the file
C7_Witness ==
    /\ last.op = "save_graph"
    /\ last.format = "json"
    /\ last.ret = None
    /\ graph_path # None
    /\ LoadGraphState(EmptyGraph, None, disk, graph_path).ret = None
    /\ \E p \in PoemNodes(graph) :
          /\ "narrative_role" \notin DOMAIN graph.attr[p]
          /\ "mood" \in DOMAIN graph.attr[p]["metadata"]
          /\ graph.attr[p]["metadata"]["mood"] = None
          /\ Len(KeyDict(graph, p, EntityId("theme", Name_a_b))) = 2
          /\ \E q \in PoemNodes(graph) :
                \E i \in DOMAIN KeyDict(graph, p, q) :
                    KeyDict(graph, p, q)[i].data["notes"] = None
    /\ \A i \in DOMAIN EntityTypes : NodesOfType(graph, EntityTypes[i]) # <<>>

\* some poem is connected to both a and b
CoOccur(G, a, b) == \E p \in PoemNodes(G) : HasEdge(G, p, a) /\ HasEdge(G, p, b)

\* the ids of the entries of a result list
Ids(r) == {r[i]["id"] : i \in DOMAIN r}

(***************************************************************************)
(* C8.  For two entity types t1 and t2, every pair (a, b) in the result of *)
(* get_unexplored_combinations(t1, t2, limit) is an entity of type t1 and  *)
(* one of type t2 that no poem is connected to both of; a pair that some   *)
(* poem is connected to both of is never in the result.                    *)
(***************************************************************************)
C8_UnexploredPairsNeverCoOccur ==
    \A t1 \in PatternTypes, t2 \in PatternTypes, limit \in Limits :
        t1 # t2 =>
            LET result == GetUnexploredCombinations(graph, t1, t2, limit)
                returned == {<<result[i][t1 \o "_id"], result[i][t2 \o "_id"]>> :
                                i \in DOMAIN result}
            IN  /\ \A pair \in returned :
                      /\ TypeOf(graph, pair[1]) = t1
                      /\ TypeOf(graph, pair[2]) = t2
                      /\ ~CoOccur(graph, pair[1], pair[2])
                /\ \A a \in DOMAIN graph.attr, b \in DOMAIN graph.attr :
                      CoOccur(graph, a, b) => <<a, b>> \notin returned

\* get_unexplored_combinations has just returned a pair of a theme and a sound
\* device, in a graph where another such pair is on one poem
C8_Witness ==
    /\ last.op = "get_unexplored_combinations"
    /\ last.entity_type_1 # last.entity_type_2
    /\ last.ret # <<>>
    /\ \E a \in DOMAIN graph.attr, b \in DOMAIN graph.attr :
          /\ TypeOf(graph, a) = last.entity_type_1
          /\ TypeOf(graph, b) = last.entity_type_2
          /\ CoOccur(graph, a, b)

(***************************************************************************)
(* C9.  get_inverse_pattern(entity_id, pattern_type) returns [] when       *)
(* entity_id is not in the graph; otherwise it returns, once each, exactly *)
(* the entities of pattern_type that are on no poem that references        *)
(* entity_id, with their usage counts, in descending order of usage_count. *)
(***************************************************************************)
C9_InversePatternIsComplementSorted ==
    \A e \in InverseIds, t \in PatternTypes :
        LET r == GetInversePattern(graph, e, t)
        IN  IF ~HasNode(graph, e) THEN r = <<>>
            ELSE /\ Ids(r) = {n \in DOMAIN graph.attr :
                                 TypeOf(graph, n) = t /\ ~CoOccur(graph, e, n)}
                 /\ Cardinality(Ids(r)) = Len(r)
                 /\ \A i \in DOMAIN r :
                       r[i]["usage_count"] = graph.attr[r[i]["id"]]["usage_count"]
                 /\ \A i \in DOMAIN r, j \in DOMAIN r :
                       i < j => r[i]["usage_count"] >= r[j]["usage_count"]

\* get_inverse_pattern has just returned, for an entity that a poem references,
\* two entities of which the one used more was created later
C9_Witness ==
    /\ last.op = "get_inverse_pattern"
    /\ Referencing(graph, last.entity_id) # {}
    /\ Len(last.ret) = 2
    /\ last.ret[1]["usage_count"] > last.ret[2]["usage_count"]
    /\ \E i \in DOMAIN graph.nodes, j \in DOMAIN graph.nodes :
          /\ i < j
          /\ graph.nodes[i] = last.ret[2]["id"]
          /\ graph.nodes[j] = last.ret[1]["id"]

(***************************************************************************)
(* C10.  Every theme of get_canonical_themes(3) has usage_count >= 3,      *)
(* every theme of get_rare_themes(2) has usage_count <= 2, no theme is in  *)
(* both results, and every theme node of the graph is in exactly one of    *)
(* them, once.                                                             *)
(***************************************************************************)
C10_CanonicalAndRarePartitionThemes ==
    LET canonical == GetCanonicalThemes(graph, CanonicalMinFrequency)
        rare == GetRareThemes(graph, RareMaxFrequency)
    IN  /\ \A i \in DOMAIN canonical :
              /\ canonical[i]["usage_count"] >= 3
              /\ canonical[i]["usage_count"] = graph.attr[canonical[i]["id"]]["usage_count"]
        /\ \A i \in DOMAIN rare :
              /\ rare[i]["usage_count"] <= 2
              /\ rare[i]["usage_count"] = graph.attr[rare[i]["id"]]["usage_count"]
        /\ Ids(canonical) \cap Ids(rare) = {}
        /\ Ids(canonical) \cup Ids(rare) = ThemeNodes(graph)
        /\ Len(canonical) + Len(rare) = Cardinality(ThemeNodes(graph))

\* get_canonical_themes has just returned a theme, in a graph that has a rare
\* theme as well
C10_Witness ==
    /\ last.op = "get_canonical_themes"
    /\ last.min_frequency = CanonicalMinFrequency
    /\ last.ret # <<>>
    /\ GetRareThemes(graph, RareMaxFrequency) # <<>>

\* the score x is 0.0; it lies in the closed interval [0.0, 1.0]
IsZero(x) == x.sign = 0 \/ x.num = 0
InUnitInterval(x) == IsZero(x) \/ (x.sign = 1 /\ x.num <= x.den)

\* the poems of route r that carry a line_count
CarryLineCount(G, r) ==
    {p \in PoemNodes(G) :
        /\ Get(G.attr[p], "route_id") = r
        /\ "line_count" \in DOMAIN StructureOf(G, p)}

(***************************************************************************)
(* C11.  get_structural_diversity_score(route_id) is 0.0 for a route in    *)
(* which at most one poem carries a line_count, and lies in [0.0, 1.0] for *)
(* every route, whatever line_count values its poems have.                 *)
(***************************************************************************)
C11_DiversityScoreInUnitInterval ==
    \A r \in Routes :
        LET score == GetStructuralDiversityScore(graph, r)
        IN  /\ Cardinality(CarryLineCount(graph, r)) <= 1 => IsZero(score)
            /\ InUnitInterval(score)

\* the poems whose narrative_role is role
PoemsWithRole(G, role) ==
    {q \in PoemNodes(G) :
        "narrative_role" \in DOMAIN G.attr[q] /\ G.attr[q]["narrative_role"] = role}

\* the role query lists the poems whose role it is, each once, and poem p is
\* among them or not
ListedOnce(G, role, p) ==
    /\ Len(GetPoemsByNarrativeRole(G, role)) = Cardinality(PoemsWithRole(G, role))
    /\ \E i \in DOMAIN GetPoemsByNarrativeRole(G, role) :
          GetPoemsByNarrativeRole(G, role)[i] = GetPoem(G, p)
NotListed(G, role, p) ==
    /\ Len(GetPoemsByNarrativeRole(G, role)) = Cardinality(PoemsWithRole(G, role))
    /\ p \notin PoemsWithRole(G, role)

\* G and H are the same but for the narrative_role of poem p
SameButRole(G, H, p) ==
    /\ G.nodes = H.nodes /\ G.adj = H.adj /\ G.ed = H.ed
    /\ \A n \in DOMAIN G.attr :
          IF n = p
          THEN Without(G.attr[n], {"narrative_role"}) = Without(H.attr[n], {"narrative_role"})
          ELSE G.attr[n] = H.attr[n]

(***************************************************************************)
(* C12.  Marking a poem with a role gives it exactly that role, whatever   *)
(* role it had, and changes nothing else; the role query then lists the    *)
(* poem once.  Marking a poem core that is core already leaves the state   *)
(* as it is.  clear_narrative_role removes the role, and the core-poems    *)
(* query no longer lists the poem.                                         *)
(***************************************************************************)
C12_MarkOverwritesClearRemoves ==
    [][\A p \in PoemIds :
          IsPoem(graph, p) =>
              /\ \A role \in MarkRoles :
                    (last'.op = "mark_poem_as_" \o role /\ last'.poem_id = p) =>
                        /\ last'.ret = TRUE
                        /\ PoemsWithRole(graph', role) = PoemsWithRole(graph, role) \cup {p}
                        /\ \A other \in (MarkRoles \cup GivenRoles) \ {role} :
                              p \notin PoemsWithRole(graph', other)
                        /\ SameButRole(graph, graph', p)
                        /\ ListedOnce(graph', role, p)
                        /\ p \in PoemsWithRole(graph, role) => graph' = graph
              /\ (last'.op = "clear_narrative_role" /\ last'.poem_id = p) =>
                    /\ last'.ret = TRUE
                    /\ "narrative_role" \notin DOMAIN graph'.attr[p]
                    /\ SameButRole(graph, graph', p)
                    /\ NotListed(graph', "core", p)]_vars

\* a poem that had another role has just been marked core and is the one poem
\* the core-poems query lists
C12_Witness ==
    /\ last.op = "mark_poem_as_core"
    /\ last.ret = TRUE
    /\ PoemsWithRole(graph, "core") = {last.poem_id}
    /\ Len(GetPoemsByNarrativeRole(graph, "core")) = 1
    /\ GetPoemsByNarrativeRole(graph, "core")[1]["narrative_role"] = "core"

\* graph G with the narrative_role of poem p set to "unassigned"
WithUnassigned(G, p) == [G EXCEPT !.attr[p] = Update(@, [narrative_role |-> "unassigned"])]

(***************************************************************************)
(* C13.  A poem with no narrative_role attribute and a poem whose          *)
(* narrative_role is "unassigned" are in the same state: for a graph with  *)
(* a poem without the attribute and the graph that differs only in that    *)
(* the poem has narrative_role "unassigned", the role query for            *)
(* "unassigned" lists as many poems, get_narrative_summary is the same,    *)
(* and remove_poems_by_narrative_role("unassigned") removes the same poems *)
(* and returns the same count.                                             *)
(***************************************************************************)
C13_AbsentRoleIsUnassigned ==
    \A p \in PoemNodes(graph) :
        "narrative_role" \notin DOMAIN graph.attr[p] =>
            LET H == WithUnassigned(graph, p)
                r1 == RemovePoemsByNarrativeRole(graph, "unassigned", NoCallback)
                r2 == RemovePoemsByNarrativeRole(H, "unassigned", NoCallback)
            IN  /\ Len(GetPoemsByNarrativeRole(graph, "unassigned"))
                      = Len(GetPoemsByNarrativeRole(H, "unassigned"))
                /\ GetNarrativeSummary(graph) = GetNarrativeSummary(H)
                /\ r1.ret = r2.ret
                /\ DOMAIN r1.g.attr = DOMAIN r2.g.attr

\* the roles of the domain model
NarrativeRoles == {"core", "extension", "variation", "route_generated", "unassigned"}

BoolOps ==
    {"mark_poem_as_" \o role : role \in MarkRoles} \cup {"clear_narrative_role", "remove_poem"}

(***************************************************************************)
(* C15.  An operation given the id of a poem that is not in the graph      *)
(* returns None (get_poem) or False (the mark operations,                  *)
(* clear_narrative_role, remove_poem, and create_narrative_connection and  *)
(* remove_narrative_connection when either id is absent) and leaves the    *)
(* graph as it is; remove_poem and the mark operations do the same for the *)
(* id of a node that is not a poem.                                        *)
(***************************************************************************)
C15_AbsentIdIsRefused ==
    [][/\ (last'.op = "get_poem" /\ ~HasNode(graph, last'.poem_id)) =>
              last'.ret = None /\ graph' = graph
       /\ (last'.op \in BoolOps /\ ~HasNode(graph, last'.poem_id)) =>
              last'.ret = FALSE /\ graph' = graph
       /\ (/\ last'.op \in {"create_narrative_connection", "remove_narrative_connection"}
           /\ ~(HasNode(graph, last'.source) /\ HasNode(graph, last'.target))) =>
              last'.ret = FALSE /\ graph' = graph
       /\ (/\ last'.op \in BoolOps \ {"clear_narrative_role"}
           /\ HasNode(graph, last'.poem_id)
           /\ ~IsPoem(graph, last'.poem_id)) =>
              last'.ret = FALSE /\ graph' = graph]_vars

\* create_narrative_connection has just been refused for a poem in the graph and
\* a poem that is not, and the graph holds the one poem still
C15_Witness ==
    /\ last.op = "create_narrative_connection"
    /\ last.ret = FALSE
    /\ IsPoem(graph, last.source)
    /\ ~HasNode(graph, last.target)
    /\ PoemNodes(graph) = {last.source}

\* every edge of G, in its adjacency and in its key dicts, joins two nodes of G
NoDanglingEdge(G) ==
    /\ DOMAIN G.adj = DOMAIN G.attr
    /\ \A u \in DOMAIN G.adj : \A i \in DOMAIN G.adj[u] : HasNode(G, G.adj[u][i])
    /\ \A e \in DOMAIN G.ed : HasNode(G, e[1]) /\ HasNode(G, e[2])

\* the poems that get_poem lists as targets of narrative connections of poem q
ConnectionTargets(G, q) ==
    {GetPoem(G, q)["narrative_connections"][i].target_poem_id :
        i \in DOMAIN GetPoem(G, q)["narrative_connections"]}

(***************************************************************************)
(* C16.  After remove_poem(P) returns True, P is not a node and no edge    *)
(* has P as its source or its target, the narrative connections of other   *)
(* poems to P included.  After every step every edge joins two nodes of    *)
(* the graph, and get_poem of a poem lists narrative connections to poems  *)
(* of the graph only.                                                      *)
(***************************************************************************)
C16_RemovePoemCascades ==
    [][/\ (last'.op = "remove_poem" /\ last'.ret = TRUE) =>
              /\ ~HasNode(graph', last'.poem_id)
              /\ last'.poem_id \notin Range(graph'.nodes)
              /\ \A i \in DOMAIN Edges(graph') :
                    /\ Edges(graph')[i].source # last'.poem_id
                    /\ Edges(graph')[i].target # last'.poem_id
              /\ \A q \in PoemNodes(graph') : ~HasEdge(graph', q, last'.poem_id)
       /\ NoDanglingEdge(graph')
       /\ \A q \in PoemNodes(graph') : ConnectionTargets(graph', q) \subseteq PoemNodes(graph')]_vars

\* remove_poem has just removed a poem that another poem had a narrative
\* connection to, and the other poem is left with no connection
C16_Witness ==
    /\ last.op = "remove_poem"
    /\ last.ret = TRUE
    /\ \E q \in PoemNodes(graph) :
          /\ q # last.poem_id
          /\ GetPoem(graph, q)["narrative_connections"] = <<>>
          /\ RemovePoemGraph(
                 CreateNarrativeConnectionGraph(
                     AddPoemGraph(graph, last.poem_id, BarePoem, "t0"),
                     q, last.poem_id, DefaultConnection, "t0").g,
                 last.poem_id, last.cleanup).g = graph

\* the number of edges from u to v whose type is narrative_connection
NarrativeCount(G, u, v) ==
    Cardinality({i \in DOMAIN KeyDict(G, u, v) :
                    Get(KeyDict(G, u, v)[i].data, "type") = "narrative_connection"})

(***************************************************************************)
(* C17.  remove_narrative_connection(source, target) leaves no             *)
(* narrative_connection edge from source to target, returns True exactly   *)
(* when there was one, and changes nothing else: the nodes and their       *)
(* attributes, the edges of other types from source to target, the         *)
(* narrative connections from target to source and the edges of every      *)
(* other pair are as they were.                                            *)
(***************************************************************************)
C17_RemoveConnectionFrame ==
    [][last'.op = "remove_narrative_connection" =>
          LET s == last'.source
              t == last'.target
          IN  /\ last'.ret = (NarrativeCount(graph, s, t) > 0)
              /\ NarrativeCount(graph', s, t) = 0
              /\ graph'.nodes = graph.nodes
              /\ graph'.attr = graph.attr
              /\ \A u \in DOMAIN graph.attr, v \in DOMAIN graph.attr :
                    \A d \in EdgeData(graph, u, v) \cup EdgeData(graph', u, v) :
                        (<<u, v>> # <<s, t>> \/ Get(d, "type") # "narrative_connection") =>
                            EdgeCount(graph', u, v, d) = EdgeCount(graph, u, v, d)]_vars

\* the narrative connection of a poem to its theme has just been removed; the
\* has_theme edge of the same pair and the narrative connection from the theme
\* to the poem are in place
C17_Witness ==
    /\ last.op = "remove_narrative_connection"
    /\ last.ret = TRUE
    /\ IsPoem(graph, last.source)
    /\ \E d \in EdgeData(graph, last.source, last.target) : Get(d, "type") = "has_theme"
    /\ NarrativeCount(graph, last.source, last.target) = 0
    /\ NarrativeCount(graph, last.target, last.source) = 1

\* the poems of role that confirm_callback lets remove_poems_by_narrative_role remove
Confirmed(G, role, confirm_callback) ==
    {p \in PoemsWithRole(G, role) : confirm_callback.given => confirm_callback.answer[p]}

(***************************************************************************)
(* C18.  remove_poems_by_narrative_role(role, confirm_callback) calls the  *)
(* callback once for each poem that has the role when the call starts,     *)
(* with the poem's id, its title and the role, and makes no other call; a  *)
(* poem the callback answers false for stays as it is, a poem it answers   *)
(* true for is removed, no other poem is removed, and the count returned   *)
(* is the number of poems removed.  Without a callback no call is made and *)
(* every poem with the role is removed.                                    *)
(***************************************************************************)
C18_CallbackOncePerCandidate ==
    [][last'.op = "remove_poems_by_narrative_role" =>
          LET role == last'.role
              cb == last'.confirm_callback
              calls == last'.calls
              candidates == PoemsWithRole(graph, role)
              removed == Confirmed(graph, role, cb)
          IN  /\ IF cb.given
                 THEN /\ Len(calls) = Cardinality(candidates)
                      /\ Range(calls) =
                            {<<p, GetOr(graph.attr[p], "title", "Untitled"), role>> :
                                p \in candidates}
                 ELSE calls = <<>> /\ removed = candidates
              /\ PoemNodes(graph') = PoemNodes(graph) \ removed
              /\ \A p \in PoemNodes(graph') : graph'.attr[p] = graph.attr[p]
              /\ last'.ret = Cardinality(removed)]_vars

\* the callback has just been asked about two poems of the role, has answered
\* true for one and false for the other, and the other is the one poem left
C18_Witness ==
    /\ last.op = "remove_poems_by_narrative_role"
    /\ last.confirm_callback.given
    /\ Len(last.calls) = 2
    /\ last.calls[1][1] # last.calls[2][1]
    /\ last.ret = 1
    /\ \E p \in PoemIds :
          /\ ~last.confirm_callback.answer[p]
          /\ PoemNodes(graph) = {p}
          /\ PoemsWithRole(graph, last.role) = {p}

\* the analytics queries and the prompt builder
QueryOps ==
    {"get_canonical_themes", "get_rare_themes", "get_unexplored_combinations",
     "get_inverse_pattern", "get_structural_diversity_score", "build_prompt_for_route"}

\* the themes of G used at least m times, and their names
ThemesUsed(G, m) == {n \in ThemeNodes(G) : GetOr(G.attr[n], "usage_count", 0) >= m}
ThemeNames(G, m) == {G.attr[n]["name"] : n \in ThemesUsed(G, m)}

Parsable(files, path) ==
    /\ path \in DOMAIN files
    /\ files[path].format = (IF IsPickleName(path) THEN "pickle" ELSE "json")

(***************************************************************************)
(* C20.  A store constructed with a path at which there is no file holds   *)
(* the empty graph, and the constructor does not raise.  load_graph of a   *)
(* file that is missing or that it cannot parse raises, and the graph and  *)
(* the default path are then the ones held before the call.  save_graph    *)
(* with no path, on a store with no default path, raises and writes no     *)
(* file.                                                                   *)
(***************************************************************************)
C20_MissingFileStartsFreshFailedLoadKeepsGraph ==
    [][/\ (last'.op = "construct" /\ last'.path \notin DOMAIN disk) =>
              /\ last'.ret = None
              /\ graph' = EmptyGraph
              /\ graph_path' = last'.path
       /\ last'.op = "load_graph" =>
              /\ (last'.ret # None) = ~Parsable(disk, last'.path)
              /\ last'.ret # None => graph' = graph /\ graph_path' = graph_path
       /\ (last'.op = "save_graph" /\ last'.path = None /\ graph_path = None) =>
              /\ last'.ret = "ValueError"
              /\ disk' = disk]_vars

\* load_graph has just raised on a file it cannot parse, and the store holds the
\* poem it held
C20_Witness ==
    /\ last.op = "load_graph"
    /\ last.path \in DOMAIN disk
    /\ last.ret \notin {None, "FileNotFoundError"}
    /\ PoemNodes(graph) # {}


(***************************************************************************)
(* Narrative adherence.                                                    *)
(***************************************************************************)
\* the number of canonical themes the themes of an analysis match
CanonicalMatches(themes) ==
    Cardinality({LowerTheme(t) : t \in themes}
                \cap {central_themes[i] : i \in DOMAIN central_themes})

\* the last call tested a route at story influence 0.9, and the themes
\* extracted from each of its poems match exactly two canonical themes
TwoMatchesAtSupporting ==
    /\ last.op = "test_route_narrative_adherence"
    /\ last.story_influence = 9
    /\ last.ret.test_result # "NO_POEMS"
    /\ \A i \in DOMAIN last.ret.detailed_analysis :
          /\ ~last.ret.detailed_analysis[i].error
          /\ CanonicalMatches(last.ret.detailed_analysis[i].poem_themes) = 2

\* every poem of the last test has its motif, emotion and fragment sub-scores
\* all at least lo and at most hi
OtherSubScoresWithin(lo, hi) ==
    \A i \in DOMAIN last.ret.detailed_analysis :
        LET f == last.ret.detailed_analysis[i].adherence_factors
        IN  \A k \in {"motif_adherence", "emotion_alignment", "narrative_fragments"} :
                lo <= f[k] /\ f[k] <= hi

StanceOf(story_influence) ==
    CASE story_influence \in 0..3 -> "opposing"
      [] story_influence \in 4..6 -> "ambivalent"
      [] story_influence \in 7..10 -> "supporting"

\* C22: a test expects the stance opposing for a story influence of at most
\* 0.3, supporting for one of at least 0.7 and ambivalent otherwise; the
\* comprehensive mode runs the test once for each of 0.1, 0.3, 0.5, 0.7 and 0.9,
\* in that order, expecting opposing, opposing, ambivalent, supporting and
\* supporting.
C22_StanceOfInfluenceAndSweepOrder ==
    /\ last.op = "test_route_narrative_adherence" =>
          /\ last.ret.story_influence = last.story_influence
          /\ last.ret.expected_stance = StanceOf(last.story_influence)
    /\ last.op = "test_multiple_story_influences" =>
          /\ [k \in DOMAIN last.ret.test_results |-> last.ret.test_results[k].story_influence]
                = <<1, 3, 5, 7, 9>>
          /\ [k \in DOMAIN last.ret.test_results |-> last.ret.test_results[k].expected_stance]
                = <<"opposing", "opposing", "ambivalent", "supporting", "supporting">>
          /\ \A k \in DOMAIN last.ret.test_results :
                last.ret.test_results[k].route_id = last.route_id

\* the comprehensive mode ran on a route with poems
C22_Witness ==
    /\ last.op = "test_multiple_story_influences"
    /\ \A k \in DOMAIN last.ret.test_results :
          /\ last.ret.test_results[k].test_result # "NO_POEMS"
          /\ last.ret.test_results[k].poems_analyzed = 2


(***************************************************************************)
(* The prompt builder.                                                     *)
(***************************************************************************)
\* the last call built a prompt and returned
BuiltPrompt == last.op = "build_prompt_for_route" /\ ~IsRaised(last.ret)

\* the strategy of a personality: loyal above a loyalty of 0.7, otherwise the
\* one its rebellious_mode names, balanced when it names none of the three
StrategyOf(personality) ==
    IF "loyalty_to_canon" \in DOMAIN personality /\ personality["loyalty_to_canon"] > 7
    THEN "loyal"
    ELSE IF "rebellious_mode" \in DOMAIN personality
            /\ personality["rebellious_mode"] \in {"ignore", "invert", "create_new"}
    THEN personality["rebellious_mode"]
    ELSE "balanced"

\* C23: build_prompt_for_route selects one strategy: loyal when loyalty_to_canon
\* is above 0.7, whatever rebellious_mode is; otherwise ignore, invert or
\* create_new as rebellious_mode says, and balanced for any other
\* rebellious_mode or none; the constraints are those the builder of that
\* strategy returns.
C23_OneStrategyByLoyaltyThenMode ==
    BuiltPrompt =>
        LET chosen == StrategyOf(last.personality)
        IN  /\ last.ret.strategy =
                  CASE chosen = "loyal" -> "following established patterns"
                    [] chosen = "ignore" -> "exploring underutilized territory"
                    [] chosen = "invert" -> "subverting expectations"
                    [] chosen = "create_new" -> "pioneering new ground"
                    [] chosen = "balanced" -> "balancing tradition and innovation"
            /\ last.ret.constraints =
                  CASE chosen = "loyal" -> BuildLoyalConstraints(graph, last.personality)
                    [] chosen = "ignore" -> BuildIgnoreConstraints(graph, last.personality)
                    [] chosen = "invert" -> BuildInvertConstraints(graph, last.personality)
                    [] chosen = "create_new" ->
                          BuildCreateNewConstraints(graph, last.personality)
                    [] chosen = "balanced" ->
                          BuildBalancedConstraints(graph, last.personality)

\* a prompt was built for a personality of loyalty 0.7 in invert mode, over a
\* graph with a canonical theme
C23_Witness ==
    /\ BuiltPrompt
    /\ GetOr(last.personality, "loyalty_to_canon", 5) = 7
    /\ Get(last.personality, "rebellious_mode") = "invert"
    /\ last.ret.constraints.approach = "invert_canon"


\* the last call built a prompt with the loyal strategy
BuiltLoyal == BuiltPrompt /\ last.ret.constraints.approach = "canonical"

\* the usage_count of the entity of a type and a name, 0 when there is none
UsageOf(entity_type, name) ==
    IF HasNode(graph, EntityId(entity_type, name))
    THEN graph.attr[EntityId(entity_type, name)]["usage_count"]
    ELSE 0

\* the names are in descending order of affinity + usage_count / 10, in tenths
DescendingScore(names, entity_type, affinities) ==
    \A i \in DOMAIN names : \A j \in DOMAIN names :
        i < j => ItemGet(affinities, names[i], 0) + UsageOf(entity_type, names[i])
                 >= ItemGet(affinities, names[j], 0) + UsageOf(entity_type, names[j])

\* at most n names, each of an entity used at least min_frequency times, in
\* descending order of score
SelectedCanonical(names, n, entity_type, min_frequency, affinities) ==
    /\ Len(names) <= n
    /\ \A i \in DOMAIN names : UsageOf(entity_type, names[i]) >= min_frequency
    /\ DescendingScore(names, entity_type, affinities)

\* C24 as stated: the loyal strategy returns at most 3 themes and at most 2
\* sound devices, each used at least 3 times, the default threshold of the
\* canonical query of its type, in descending order of affinity +
\* usage_count / 10.
C24_LoyalSelectsCanonicalAtThree ==
    BuiltLoyal =>
        /\ SelectedCanonical(last.ret.constraints.themes, 3, "theme", 3,
                             GetOr(last.personality, "theme_affinities", <<>>))
        /\ SelectedCanonical(last.ret.constraints.sound_devices, 2, "sound_device", 3,
                             GetOr(last.personality, "sound_preferences", <<>>))

\* C24, amended: the loyal strategy returns at most 3 themes, each used at least
\* 3 times, and at most 2 sound devices, each used at least 2 times, both in
\* descending order of affinity + usage_count / 10.
C24_LoyalSelectsThemesAtThreeSoundsAtTwo ==
    BuiltLoyal =>
        /\ SelectedCanonical(last.ret.constraints.themes, 3, "theme", 3,
                             GetOr(last.personality, "theme_affinities", <<>>))
        /\ SelectedCanonical(last.ret.constraints.sound_devices, 2, "sound_device", 2,
                             GetOr(last.personality, "sound_preferences", <<>>))

\* the loyal strategy chose 3 of four canonical themes and 2 of three canonical
\* sound devices, for a personality with affinities
C24_Witness ==
    /\ BuiltLoyal
    /\ "theme_affinities" \in DOMAIN last.personality
    /\ Len(last.ret.constraints.themes) = 3
    /\ Len(last.ret.constraints.sound_devices) = 2
    /\ Len(GetCanonicalThemes(graph, 3)) = 4
    /\ Len(GetCanonicalSoundDevices(graph, 2)) = 3


\* the last call built a prompt with the invert strategy
BuiltInvert == BuiltPrompt /\ StrategyOf(last.personality) = "invert"

\* the name is that of a theme used at least 3 times and no less than any theme
MostCanonicalTheme(name) ==
    /\ UsageOf("theme", name) >= 3
    /\ \A n \in ThemeNodes(graph) : graph.attr[n]["usage_count"] <= UsageOf("theme", name)

\* every name is of an entity of the type that no poem joins with the theme
NeverWithTheme(names, entity_type, theme) ==
    \A i \in DOMAIN names :
        /\ HasNode(graph, EntityId(entity_type, names[i]))
        /\ ~CoOccur(graph, EntityId("theme", theme), EntityId(entity_type, names[i]))

\* the constraints are one theme, the most canonical, with sound devices and
\* emotions that never occurred with it
InvertsMostCanonical(constraints) ==
    /\ Len(constraints.themes) = 1
    /\ MostCanonicalTheme(constraints.themes[1])
    /\ "inverse_emotions" \in DOMAIN constraints
    /\ NeverWithTheme(constraints.sound_devices, "sound_device", constraints.themes[1])
    /\ NeverWithTheme(constraints.inverse_emotions, "emotion", constraints.themes[1])

\* C25 as stated: the invert strategy returns as its only theme the most
\* canonical theme, the most used of the themes used at least 3 times, and
\* every sound device and emotion it returns has never occurred on a poem with
\* that theme.
C25_InvertReturnsMostCanonicalTheme ==
    BuiltInvert => InvertsMostCanonical(last.ret.constraints)

\* C25, amended: when some theme is used at least 3 times, the invert strategy
\* returns as its only theme the most used of them, and every sound device and
\* emotion it returns has never occurred on a poem with that theme; when no
\* theme is used 3 times it returns the constraints of the balanced strategy.
C25_InvertReturnsMostCanonicalOrBalanced ==
    BuiltInvert =>
        IF \E n \in ThemeNodes(graph) : graph.attr[n]["usage_count"] >= 3
        THEN InvertsMostCanonical(last.ret.constraints)
        ELSE /\ last.ret.constraints.approach = "balanced"
             /\ last.ret.constraints = BuildBalancedConstraints(graph, last.personality)

\* the invert strategy returned the canonical theme with a sound device and an
\* emotion of another poem, while a sound device used with the theme exists
C25_Witness ==
    /\ BuiltInvert
    /\ last.ret.constraints.approach = "invert_canon"
    /\ last.ret.constraints.sound_devices # <<>>
    /\ last.ret.constraints.inverse_emotions # <<>>
    /\ \E n \in Range(NodesOfType(graph, "sound_device")) :
          CoOccur(graph, EntityId("theme", last.ret.constraints.themes[1]), n)


\* the last call built a prompt with the create_new strategy
BuiltCreateNew == BuiltPrompt /\ StrategyOf(last.personality) = "create_new"

\* the unexplored pairs of a theme and a sound device, in the order of
\* get_unexplored_combinations, as <<theme, sound_device>>
UnexploredPairs ==
    LET u == GetUnexploredCombinations(graph, "theme", "sound_device", 10)
    IN  [k \in DOMAIN u |-> <<u[k]["theme"], u[k]["sound_device"]>>]

\* the sound preference of the pair plus its theme affinity, in tenths, each
\* 0.5 for a name the personality does not list
PairScore(pair, personality) ==
    (LET d == GetOr(personality, "sound_preferences", <<>>)
     IN  IF \E n \in DOMAIN d : d[n][1] = pair[2]
         THEN (CHOOSE v \in 0..10 : \E n \in DOMAIN d : d[n] = <<pair[2], v>>) ELSE 5)
    + (LET d == GetOr(personality, "theme_affinities", <<>>)
       IN  IF \E n \in DOMAIN d : d[n][1] = pair[1]
           THEN (CHOOSE v \in 0..10 : \E n \in DOMAIN d : d[n] = <<pair[1], v>>) ELSE 5)

\* C26: the create_new strategy returns the first unexplored pair of a theme and
\* a sound device whose sound preference plus theme affinity exceeds 1.0; when
\* no unexplored pair scores above 1.0 it returns the first unexplored pair, and
\* when there is no unexplored pair it returns the two placeholders.
C26_CreateNewPicksFirstPairAboveOne ==
    BuiltCreateNew =>
        LET returned == <<last.ret.constraints.themes, last.ret.constraints.sound_devices>>
            above == {k \in DOMAIN UnexploredPairs :
                         PairScore(UnexploredPairs[k], last.personality) > 10}
        IN  IF UnexploredPairs = <<>>
            THEN returned = <<<<"(introduce new theme)">>, <<"(introduce new sound device)">>>>
            ELSE \E k \in DOMAIN UnexploredPairs :
                    /\ returned = <<<<UnexploredPairs[k][1]>>, <<UnexploredPairs[k][2]>>>>
                    /\ IF above = {} THEN k = 1
                       ELSE k \in above /\ \A j \in above : k <= j

\* the create_new strategy returned a pair that scores above 1.0 and is not the
\* first unexplored pair
C26_Witness ==
    /\ BuiltCreateNew
    /\ Len(UnexploredPairs) >= 2
    /\ PairScore(UnexploredPairs[1], last.personality) <= 10
    /\ <<last.ret.constraints.themes[1], last.ret.constraints.sound_devices[1]>>
          # UnexploredPairs[1]


(***************************************************************************)
(* get_unexplored_combinations and its limit.                              *)
(***************************************************************************)
\* the pairs of an entity of the first type and one of the second that no poem
\* joins, in the order of the product of the two node lists
UnobservedInOrder(entity_type_1, entity_type_2) ==
    LET all_1 == NodesOfType(graph, entity_type_1)
        all_2 == NodesOfType(graph, entity_type_2)
        product == [k \in 1..(Len(all_1) * Len(all_2)) |->
                       <<all_1[((k - 1) \div Len(all_2)) + 1],
                         all_2[((k - 1) % Len(all_2)) + 1]>>]
    IN  SelectSeq(product, LAMBDA pair : ~CoOccur(graph, pair[1], pair[2]))

\* C27: get_unexplored_combinations(type_a, type_b, limit) returns at most limit
\* pairs, for every limit from 0 on, and they are the first unobserved pairs in
\* the order of the product of the entities of type_a and those of type_b, none
\* skipped.
C27_AtMostLimitFirstUnobserved ==
    last.op = "get_unexplored_combinations" =>
        LET unobserved == UnobservedInOrder(last.entity_type_1, last.entity_type_2)
            returned == [k \in DOMAIN last.ret |->
                            <<last.ret[k][last.entity_type_1 \o "_id"],
                              last.ret[k][last.entity_type_2 \o "_id"]>>]
        IN  /\ Len(last.ret) <= last.limit
            /\ Len(returned) <= Len(unobserved)
            /\ returned = SubSeq(unobserved, 1, Len(returned))


(***************************************************************************)
(* Narrative connections and the types of their ends.                      *)
(***************************************************************************)
\* C28: each narrative_connection edge joins two nodes of type poem; a call of
\* create_narrative_connection or add_narrative_connection whose source or
\* target is an entity node adds no edge.
C28_NarrativeConnectionsJoinPoems ==
    \A u \in DOMAIN graph.attr, v \in DOMAIN graph.attr :
        NarrativeCount(graph, u, v) > 0 => IsPoem(graph, u) /\ IsPoem(graph, v)


(***************************************************************************)
(* The shared graph instance.                                              *)
(***************************************************************************)
\* C29: in every order of calls of initialize_graph and get_poetry_graph, a
\* call of get_poetry_graph that returns, returns the instance the most recent
\* initialize_graph made, or the one made on first use when initialize_graph
\* was never called: the instance held in _graph_instance.
C29_GetReturnsTheCurrentInstance ==
    (last.op = "get_poetry_graph" /\ ~IsRaised(last.ret)) =>
        last.ret.instance = deps.graph_instance


(***************************************************************************)
(* Generation and the ids of the poems.                                    *)
(***************************************************************************)
\* C30: every generation that returns a poem adds one new poem node: its id
\* is not the id of a node already in the graph, also when an earlier
\* generation for the same route happened in the same second, the number of
\* poems grows by exactly one, and no attribute or edge of an earlier poem
\* changes.
C30_GenerationAddsOneNewPoem ==
    [][(last'.op = "generate_poem_for_route" /\ "poem_id" \in DOMAIN last'.ret) =>
          /\ ~HasNode(graph, last'.ret.poem_id)
          /\ Cardinality(PoemNodes(graph')) = Cardinality(PoemNodes(graph)) + 1
          /\ \A p \in PoemNodes(graph) :
                /\ graph'.attr[p] = graph.attr[p]
                /\ Neighbors(graph', p) = Neighbors(graph, p)]_vars

====
